---- MODULE Spec2Model ----
(***************************************************************************)
(* A model of the NAS protocol-validation harness:                         *)
(*   exec_syslog.py     decode_priority                                    *)
(*   exec_mounts.py     _build_mount_options, mount_nas, unmount_nas       *)
(*   nfs3_test_suite.py mount_nas, unmount_nas, run_tests, print_summary,  *)
(*                      nfs3_test_suite_runner                             *)
(*   test_nfs.py        get_test_functions, nfs_test_suite                 *)
(*   app.py             main                                               *)
(* Each component has its own specification over the shared variables; the *)
(* variables of the other components stay at their initial value.          *)
(***************************************************************************)
EXTENDS Integers, Sequences, FiniteSets, TLC

VARIABLES
    dPc,         \* exec_syslog: "received" before decode_priority ran, "decoded" after
    dRaw,        \* exec_syslog: the bytes handed to decode_priority
    dOut,        \* exec_syslog: the tuple decode_priority returned
    mRoot,       \* exec_mounts: os.geteuid() == 0
    mOs,         \* exec_mounts: the host, [dirs: directories that exist, live: live mounts, tmp: temp names used]
    mCalls,      \* exec_mounts: number of calls made so far
    mLast,       \* exec_mounts: the last call, its arguments, the host before it and what it returned
    mPrev,       \* exec_mounts: the call before the last one
    rArgs,       \* nfs3 runner: [root: geteuid() == 0, uidGiven, mountsGiven]
    rMounts,     \* nfs3 runner: the list nfs3_mounts
    rPc,         \* nfs3 runner: position in nfs3_test_suite_runner
    rIdx,        \* nfs3 runner: index of the current mount_config
    rTest,       \* nfs3 runner: number of test calls run_tests has completed
    rOs,         \* nfs3 runner: the host (directories, live mounts, temp names)
    rMountPoint, \* nfs3 runner: mount_point of the current target
    rAllResults, \* nfs3 runner: the global all_results of run_tests
    rAllThe,     \* nfs3 runner: all_the_results
    rTextLog,    \* nfs3 runner: the test_result entries of the current text_logger
    rHist,       \* nfs3 runner: per target begun, what was done for it
    rExc,        \* nfs3 runner: the exception that left the runner, "" if none
    rDev,        \* nfs3 runner: number of non-nominal outcomes so far
    aRoot,       \* app.main: the process runs as root (geteuid() == 0)
    aAppliances, \* app.main: storage_appliances, the vendor of each
    aPc,         \* app.main: position in main
    aIdx,        \* app.main: index of the current appliance
    aSyslog,     \* app.main: [started, stopped, grace, closedInGrace]: capture
                 \* services started / stopped, whether a time.sleep has run
                 \* since the last audit-triggering action, and whether it
                 \* had when the capture file was closed
    aAudit,      \* app.main: the appliances that forward audit events to the harness
    aHist,       \* app.main: per appliance begun, what was done for it
    aEffects,    \* app.main: the network operations and mounts performed, in order
    aExc,        \* app.main: the exception that ended main, "" if none
    sRoot,       \* nfs_test_suite: the process runs as root
    sMounts,     \* nfs_test_suite: mounts_list, the options of each mount
    sPc,         \* nfs_test_suite: position in nfs_test_suite
    sIdx,        \* nfs_test_suite: index of the current nfs_mount
    sPlan,       \* nfs_test_suite: the functions the three loops call for the current mount
    sTest,       \* nfs_test_suite: number of functions of sPlan already called
    sOs,         \* nfs_test_suite: the host (directories, live mounts, temp names)
    sMountPath,  \* nfs_test_suite: mount_path of the current mount
    sAllResults, \* nfs_test_suite: all_results
    sHist,       \* nfs_test_suite: per mount begun, what was done for it
    sExc,        \* nfs_test_suite: the exception that left nfs_test_suite, "" if none
    sDev,        \* nfs_test_suite: number of non-nominal outcomes so far
    cPc,         \* syslog capture: position of the thread that runs stop_syslog_server
    hPc,         \* syslog capture: position of each handler thread
    hData,       \* syslog capture: the bytes each handler thread is handling
    hTmp,        \* syslog capture: the value of self.count each thread loaded for `+= 1`
    cLock,       \* syslog capture: the thread that holds SyslogCapture.lock, "" if none
    cCount,      \* syslog capture: SyslogCapture.count
    cClosed,     \* syslog capture: SyslogCapture._file is closed
    cFile,       \* syslog capture: what was written to the capture file, in order
    cRecv,       \* syslog capture: per handler thread, the datagrams / lines it received
    cStopLog,    \* syslog capture: the calls stop_syslog_server has made, in order
    oPc,         \* option strings: "given" before the builder ran, "built" after
    oIn,         \* option strings: the mount configuration handed to the builder
    oFn,         \* option strings: the builder that ran
    oOut,        \* option strings: what the builder returned, [raised, value]
    nPc,         \* NFS4TestRunner: position in run_basic_tests
    nIn,         \* NFS4TestRunner: the arguments [minor_version, mount_type]
    nTest,       \* NFS4TestRunner: number of test methods that have returned
    nLive,       \* NFS4TestRunner: the export is mounted on the host
    nOps,        \* NFS4TestRunner: the mount and umount commands run, in order
    nExc,        \* NFS4TestRunner: the exception that left run_basic_tests, "" if none
    wPc,         \* concurrent test: position of the thread that runs the test
    wTest,       \* concurrent test: the test function
    wWorkers,    \* concurrent test: the state of each worker thread
    wResults,    \* concurrent test: the records the test appended to all_results
    qPc,         \* _request: position in API_Connection_Manager._request
    qIn,         \* _request: [retries, connected, method]: the manager's retries, its
                 \* state, and the HTTP method of the call
    qAttempt,    \* _request: the loop variable attempt
    qLog,        \* _request: what answered each request sent, in order
    qOut         \* _request: how the call ended, "" while it runs

decodeVars == <<dPc, dRaw, dOut>>

mountVars == <<mRoot, mOs, mCalls, mLast, mPrev>>

runnerVars == <<rArgs, rMounts, rPc, rIdx, rTest, rOs, rMountPoint, rAllResults,
                rAllThe, rTextLog, rHist, rExc, rDev>>

appVars == <<aRoot, aAppliances, aPc, aIdx, aSyslog, aAudit, aHist, aEffects, aExc>>

vars == <<dPc, dRaw, dOut, mRoot, mOs, mCalls, mLast, mPrev,
          rArgs, rMounts, rPc, rIdx, rTest, rOs, rMountPoint, rAllResults,
          rAllThe, rTextLog, rHist, rExc, rDev,
          aRoot, aAppliances, aPc, aIdx, aSyslog, aAudit, aHist, aEffects, aExc,
          sRoot, sMounts, sPc, sIdx, sPlan, sTest, sOs, sMountPath, sAllResults,
          sHist, sExc, sDev,
          cPc, hPc, hData, hTmp, cLock, cCount, cClosed, cFile, cRecv, cStopLog,
          oPc, oIn, oFn, oOut,
          nPc, nIn, nTest, nLive, nOps, nExc,
          wPc, wTest, wWorkers, wResults,
          qPc, qIn, qAttempt, qLog, qOut>>

optionVars == <<oPc, oIn, oFn, oOut>>

nfs4Vars == <<nPc, nIn, nTest, nLive, nOps, nExc>>

workerVars == <<wPc, wTest, wWorkers, wResults>>

requestVars == <<qPc, qIn, qAttempt, qLog, qOut>>

captureVars == <<cPc, hPc, hData, hTmp, cLock, cCount, cClosed, cFile, cRecv, cStopLog>>

suiteVars == <<sRoot, sMounts, sPc, sIdx, sPlan, sTest, sOs, sMountPath, sAllResults,
               sHist, sExc, sDev>>

\* the variables an action of one component leaves alone
notDecode == <<mountVars, runnerVars, appVars, suiteVars, captureVars, optionVars,
    nfs4Vars, workerVars, requestVars>>

notMounts == <<decodeVars, runnerVars, appVars, suiteVars, captureVars, optionVars,
    nfs4Vars, workerVars, requestVars>>

notRunner == <<decodeVars, mountVars, appVars, suiteVars, captureVars, optionVars,
    nfs4Vars, workerVars, requestVars>>

notApp == <<decodeVars, mountVars, suiteVars, captureVars, optionVars,
    nfs4Vars, workerVars, requestVars>>

notSuite == <<decodeVars, mountVars, runnerVars, appVars, captureVars, optionVars,
    nfs4Vars, workerVars, requestVars>>

notCapture == <<decodeVars, mountVars, runnerVars, appVars, suiteVars, optionVars,
    nfs4Vars, workerVars, requestVars>>

notOptions == <<decodeVars, mountVars, runnerVars, appVars, suiteVars, captureVars,
    nfs4Vars, workerVars, requestVars>>

notNfs4 == <<decodeVars, mountVars, runnerVars, appVars, suiteVars, captureVars,
             optionVars, workerVars, requestVars>>

notWorkers == <<decodeVars, mountVars, runnerVars, appVars, suiteVars, captureVars,
                optionVars, nfs4Vars, requestVars>>

notRequest == <<decodeVars, mountVars, runnerVars, appVars, suiteVars, captureVars,
                optionVars, nfs4Vars, workerVars>>

(***************************************************************************)
(* String helpers (Python str methods used by the code).                   *)
(***************************************************************************)
CharAt(s, i) == SubSeq(s, i, i)

\* str.startswith
StartsWith(s, p) == Len(s) >= Len(p) /\ SubSeq(s, 1, Len(p)) = p

\* the `in` operator on two str
Contains(s, p) == \E i \in 1..(Len(s) - Len(p) + 1) : SubSeq(s, i, i + Len(p) - 1) = p

Whitespace == {" ", "\t", "\n"}

RECURSIVE LStrip(_)
LStrip(s) == IF Len(s) > 0 /\ CharAt(s, 1) \in Whitespace
             THEN LStrip(SubSeq(s, 2, Len(s))) ELSE s

RECURSIVE RStrip(_)
RStrip(s) == IF Len(s) > 0 /\ CharAt(s, Len(s)) \in Whitespace
             THEN RStrip(SubSeq(s, 1, Len(s) - 1)) ELSE s

\* str.strip()
Strip(s) == RStrip(LStrip(s))

Digits == {"0", "1", "2", "3", "4", "5", "6", "7", "8", "9"}

DigitValue(c) ==
    CASE c = "0" -> 0 [] c = "1" -> 1 [] c = "2" -> 2 [] c = "3" -> 3
      [] c = "4" -> 4 [] c = "5" -> 5 [] c = "6" -> 6 [] c = "7" -> 7
      [] c = "8" -> 8 [] c = "9" -> 9

\* int(str) of a non-empty run of decimal digits
RECURSIVE ParseInt(_)
ParseInt(s) == IF Len(s) = 0 THEN 0
               ELSE 10 * ParseInt(SubSeq(s, 1, Len(s) - 1)) + DigitValue(CharAt(s, Len(s)))

\* length of the longest run of digits of s that starts at position i
RECURSIVE DigitRun(_, _)
DigitRun(s, i) == IF i <= Len(s) /\ CharAt(s, i) \in Digits
                  THEN 1 + DigitRun(s, i + 1) ELSE 0

(***************************************************************************)
(* exec_syslog.py: facility / severity decode                              *)
(***************************************************************************)
FACILITIES ==
    (0 :> "kern") @@ (1 :> "user") @@ (2 :> "mail") @@ (3 :> "daemon") @@
    (4 :> "auth") @@ (5 :> "syslog") @@ (6 :> "lpr") @@ (7 :> "news") @@
    (8 :> "uucp") @@ (9 :> "cron") @@ (10 :> "authpriv") @@ (11 :> "ftp") @@
    (16 :> "local0") @@ (17 :> "local1") @@ (18 :> "local2") @@
    (19 :> "local3") @@ (20 :> "local4") @@ (21 :> "local5") @@
    (22 :> "local6") @@ (23 :> "local7")

SEVERITIES ==
    (0 :> "EMERG") @@ (1 :> "ALERT") @@ (2 :> "CRIT") @@ (3 :> "ERROR") @@
    (4 :> "WARN") @@ (5 :> "NOTICE") @@ (6 :> "INFO") @@ (7 :> "DEBUG")

\* dict.get(key, default)
DictGet(d, k, default) == IF k \in DOMAIN d THEN d[k] ELSE default

\* re.match(r'^<(\d+)>(.*)', msg, re.DOTALL): the number of digits of group 1,
\* or 0 when the pattern does not match
HeaderDigits(msg) ==
    IF Len(msg) >= 3 /\ CharAt(msg, 1) = "<"
    THEN LET n == DigitRun(msg, 2)
         IN  IF n >= 1 /\ 2 + n <= Len(msg) /\ CharAt(msg, 2 + n) = ">" THEN n ELSE 0
    ELSE 0

decode_priority(raw) ==
    LET msg == Strip(raw)
        n   == HeaderDigits(msg)
    IN  IF n > 0
        THEN LET pri == ParseInt(SubSeq(msg, 2, 1 + n))
             IN  [facility |-> DictGet(FACILITIES, pri \div 8, "fac" \o ToString(pri \div 8)),
                  severity |-> DictGet(SEVERITIES, pri % 8, "sev" \o ToString(pri % 8)),
                  body     |-> Strip(SubSeq(msg, 3 + n, Len(msg)))]
        ELSE [facility |-> "unknown", severity |-> "unknown", body |-> msg]

(***************************************************************************)
(* exec_mounts.py: MOUNT_OPTIONS and _build_mount_options                  *)
(***************************************************************************)
\* the value None of an Optional[int] field
NoneInt == -1

\* MOUNT_OPTIONS() with every field at its default
MOUNT_OPTIONS ==
    [mount_mode |-> "rw", majorvers |-> 3, minorversion |-> 0, pnfs |-> FALSE,
     nconnect |-> FALSE, nconnect_count |-> 4, transport |-> "tcp",
     rsize |-> 1048576, wsize |-> 1048576, timeo |-> 600, retrans |-> 2,
     soft |-> FALSE, intr |-> TRUE, noac |-> FALSE, actimeo |-> NoneInt,
     acregmin |-> 3, acregmax |-> 60, acdirmin |-> 30, acdirmax |-> 60,
     nosharecache |-> FALSE, nordirplus |-> FALSE, sec |-> "sys"]

RECURSIVE JoinComma_NoSeparator(_)
JoinComma_NoSeparator(opts) ==
    IF Len(opts) = 0 THEN "" ELSE opts[1] \o JoinComma_NoSeparator(Tail(opts))

\* ",".join(opts)
RECURSIVE JoinComma(_)
JoinComma(opts) ==
    IF Len(opts) = 0 THEN ""
    ELSE IF Len(opts) = 1 THEN opts[1]
    ELSE opts[1] \o "," \o JoinComma(Tail(opts))

\* the list opts of _build_mount_options (when it does not raise)
BuildOptsList(options) ==
    <<options.mount_mode>>
    \o (IF options.majorvers = 3 THEN <<"vers=3">>
        ELSE IF options.majorvers = 4 THEN <<"vers=4." \o ToString(options.minorversion)>>
        ELSE <<>>)
    \o <<"proto=" \o options.transport,
         "rsize=" \o ToString(options.rsize),
         "wsize=" \o ToString(options.wsize),
         "timeo=" \o ToString(options.timeo),
         "retrans=" \o ToString(options.retrans),
         IF options.soft THEN "soft" ELSE "hard">>
    \o (IF options.intr /\ options.majorvers = 3 THEN <<"intr">> ELSE <<>>)
    \o (IF options.noac THEN <<"noac">>
        ELSE IF options.actimeo # NoneInt THEN <<"actimeo=" \o ToString(options.actimeo)>>
        ELSE <<"acregmin=" \o ToString(options.acregmin),
               "acregmax=" \o ToString(options.acregmax),
               "acdirmin=" \o ToString(options.acdirmin),
               "acdirmax=" \o ToString(options.acdirmax)>>)
    \o (IF options.majorvers = 4 /\ options.minorversion >= 1
        THEN (IF options.pnfs THEN <<"pnfs">> ELSE <<>>)
             \o (IF options.nconnect THEN <<"nconnect=" \o ToString(options.nconnect_count)>> ELSE <<>>)
             \o (IF options.nosharecache THEN <<"nosharecache">> ELSE <<>>)
             \o (IF options.nordirplus THEN <<"nordirplus">> ELSE <<>>)
        ELSE <<>>)
    \o <<"sec=" \o options.sec>>

_build_mount_options_NoMode(options) ==
    [raised |-> FALSE, value |-> JoinComma(Tail(BuildOptsList(options)))]

\* _build_mount_options: [raised, value]; raised is the ValueError of line 60
_build_mount_options(options) ==
    IF options.majorvers = 4 /\ options.minorversion > 2
    THEN [raised |-> TRUE, value |-> ""]
    ELSE [raised |-> FALSE, value |-> JoinComma(BuildOptsList(options))]

(***************************************************************************)
(* The host the mount helpers act on: directories, live mounts and the     *)
(* number of names tempfile.mkdtemp has handed out.                        *)
(***************************************************************************)
EmptyOs == [dirs |-> {}, live |-> {}, tmp |-> 0]

\* what a Python call returned: a bare bool, a 2-tuple, None, or an exception
\* that left the function.  `second` is the tuple's second element as text.
RetBool(b)     == [kind |-> "bool",  first |-> b,     second |-> ""]
RetTuple(b, x) == [kind |-> "tuple", first |-> b,     second |-> x]
RetNone        == [kind |-> "None",  first |-> FALSE, second |-> ""]
RetRaise(e)    == [kind |-> "raise", first |-> FALSE, second |-> e]

\* outcomes of `subprocess.run(["mount", ...], timeout=30)`: exit 0 with the
\* mount live, exit 0 without a live mount, non-zero exit, TimeoutExpired,
\* any other exception
MountCmdOutcomes == {"ok", "ok_not_live", "fail", "timeout", "error"}

\* outcomes of `subprocess.run(["umount", ...])` on a mount point: umount can
\* exit 0 only when the mount point is mounted
UmountCmdOutcomes(os, mp) ==
    (IF mp \in os.live THEN {"ok"} ELSE {}) \cup {"fail", "timeout", "error"}

\* os.rmdir(mp) succeeds only on an existing directory that is not a live
\* mount point and that the host lets go (rmdirOk)
RmdirSucceeds(os, mp, rmdirOk) == mp \in os.dirs /\ mp \notin os.live /\ rmdirOk

(***************************************************************************)
(* exec_mounts.py: mount_nas.  env = [mkdirOk, cmd]; result = [ret, os,    *)
(* opts: the option string of the command, ran: the command was executed]  *)
(***************************************************************************)
TmpName(n) == "/tmp/tmp" \o ToString(n)

ZCertName(n) == "/tmp/zCertTMP/tmp" \o ToString(n)

exec_mount_nas(os, root, mount_point, options, dry_run, env) ==
    IF ~root THEN [ret |-> RetBool(FALSE), os |-> os, opts |-> "", ran |-> FALSE]
    ELSE
    LET os1 == IF mount_point = "TMP"
               THEN [os EXCEPT !.dirs = @ \cup {TmpName(os.tmp)}, !.tmp = @ + 1]
               ELSE os
        mp  == IF mount_point = "TMP" THEN ZCertName(os.tmp) ELSE mount_point
        built == _build_mount_options(options)
    IN  IF built.raised
        THEN [ret |-> RetRaise("ValueError"), os |-> os1, opts |-> "", ran |-> FALSE]
        ELSE IF dry_run
        THEN [ret |-> RetTuple(TRUE, mp), os |-> os1, opts |-> built.value, ran |-> FALSE]
        ELSE IF mp \notin os1.dirs /\ ~env.mkdirOk
        THEN [ret |-> RetTuple(FALSE, mp), os |-> os1, opts |-> built.value, ran |-> FALSE]
        ELSE
        LET os2 == [os1 EXCEPT !.dirs = @ \cup {mp}]
        IN  CASE env.cmd = "ok" ->
                   [ret |-> RetTuple(TRUE, mp), os |-> [os2 EXCEPT !.live = @ \cup {mp}],
                    opts |-> built.value, ran |-> TRUE]
              [] env.cmd = "ok_not_live" ->
                   [ret |-> RetTuple(TRUE, mp), os |-> os2, opts |-> built.value, ran |-> TRUE]
              [] OTHER ->
                   [ret |-> RetTuple(FALSE, mp), os |-> os2, opts |-> built.value,
                    ran |-> TRUE]

(***************************************************************************)
(* exec_mounts.py: unmount_nas.  env = [cmd, rmdirOk]; result = [ret, os]  *)
(***************************************************************************)
exec_unmount_nas(os, root, mount_point, dry_run, env) ==
    IF ~root THEN [ret |-> RetBool(FALSE), os |-> os]
    ELSE IF dry_run THEN [ret |-> RetBool(TRUE), os |-> os]
    ELSE IF mount_point \notin os.dirs THEN [ret |-> RetTuple(FALSE, "False"), os |-> os]
    ELSE IF env.cmd = "ok"
         THEN LET os1 == [os EXCEPT !.live = @ \ {mount_point}]
              IN  IF RmdirSucceeds(os1, mount_point, env.rmdirOk)
                  THEN [ret |-> RetTuple(TRUE, "True"),
                        os  |-> [os1 EXCEPT !.dirs = @ \ {mount_point}]]
                  ELSE [ret |-> RetTuple(FALSE, "False"), os |-> os1]
    ELSE [ret |-> RetTuple(FALSE, "False"), os |-> os]

(***************************************************************************)
(* nfs3_test_suite.py: NFS3MountOptions and to_mount_string                *)
(***************************************************************************)
\* NFS3MountOptions built from the fields it shares with MOUNT_OPTIONS
NFS3MountOptions(vers, transport) ==
    [vers |-> vers, transport |-> transport, rsize |-> 1048576, wsize |-> 1048576,
     timeo |-> 600, retrans |-> 2, soft |-> FALSE, intr |-> TRUE, noac |-> FALSE,
     actimeo |-> NoneInt, acregmin |-> 3, acregmax |-> 60, acdirmin |-> 30,
     acdirmax |-> 60, nosharecache |-> FALSE, nordirplus |-> FALSE]

to_mount_string(current_options) ==
    JoinComma(
        <<"vers=" \o ToString(current_options.vers),
          "proto=" \o current_options.transport,
          "rsize=" \o ToString(current_options.rsize),
          "wsize=" \o ToString(current_options.wsize),
          "timeo=" \o ToString(current_options.timeo),
          "retrans=" \o ToString(current_options.retrans),
          IF current_options.soft THEN "soft" ELSE "hard">>
        \o (IF current_options.intr THEN <<"intr">> ELSE <<>>)
        \o (IF current_options.noac THEN <<"noac">>
            ELSE IF current_options.actimeo \notin {NoneInt, 0}
            THEN <<"actimeo=" \o ToString(current_options.actimeo)>>
            ELSE <<"acregmin=" \o ToString(current_options.acregmin),
                   "acregmax=" \o ToString(current_options.acregmax),
                   "acdirmin=" \o ToString(current_options.acdirmin),
                   "acdirmax=" \o ToString(current_options.acdirmax)>>)
        \o (IF current_options.nosharecache THEN <<"nosharecache">> ELSE <<>>)
        \o (IF current_options.nordirplus THEN <<"nordirplus">> ELSE <<>>))

(***************************************************************************)
(* nfs3_test_suite.py: mount_nas / unmount_nas                             *)
(***************************************************************************)
Nfs3TmpName(n) == "/tmp/nfs3_test_" \o ToString(n)

\* env = [mkdtempOk, cmd]; result = [ret, os]
n3_mount_nas(os, env) ==
    IF ~env.mkdtempOk THEN [ret |-> RetNone, os |-> os]
    ELSE
    LET mp  == Nfs3TmpName(os.tmp)
        os1 == [os EXCEPT !.dirs = @ \cup {mp}, !.tmp = @ + 1]
    IN  CASE env.cmd = "ok" ->
               [ret |-> RetTuple(TRUE, mp), os |-> [os1 EXCEPT !.live = @ \cup {mp}]]
          [] env.cmd = "ok_not_live" ->
               [ret |-> RetTuple(FALSE, mp), os |-> os1]
          [] env.cmd = "fail" ->
               [ret |-> RetBool(FALSE), os |-> os1]
          [] OTHER ->
               [ret |-> RetNone, os |-> os1]

\* env = [cmd, rmdirOk]; result = [ret, os]
n3_unmount_nas(os, mount_point, env) ==
    IF mount_point = "" THEN [ret |-> RetNone, os |-> os]
    ELSE IF env.cmd \in {"timeout", "error"} THEN [ret |-> RetNone, os |-> os]
    ELSE
    LET os1 == IF env.cmd = "ok" THEN [os EXCEPT !.live = @ \ {mount_point}] ELSE os
    IN  [ret |-> RetNone,
         os  |-> IF RmdirSucceeds(os1, mount_point, env.rmdirOk)
                 THEN [os1 EXCEPT !.dirs = @ \ {mount_point}] ELSE os1]

(***************************************************************************)
(* nfs3_test_suite.py: the test functions and run_tests                    *)
(***************************************************************************)
\* test_name of each test function
N3TestName ==
    [f \in {"test_mount_options_verification", "test_transport_protocol",
            "test_readwrite_mount_enforcement", "test_basic_file_operations",
            "test_idempotent_operations", "test_close_to_open_consistency",
            "test_nlm_basic_locking", "test_small_file_performance",
            "test_concurrent_writers", "test_large_file_sequential_io",
            "test_readonly_mount_enforcement"} |->
       CASE f = "test_mount_options_verification" -> "test_mount_options_verification"
         [] f = "test_large_file_sequential_io" -> "large_sequential_io"
         [] OTHER -> SubSeq(f, 6, Len(f))]

\* the calls run_tests makes, in order
run_tests_plan(mount_type, host_access) ==
    <<"test_mount_options_verification", "test_transport_protocol">>
    \o (IF mount_type = "rw" /\ host_access = "write"
        THEN <<"test_readwrite_mount_enforcement", "test_basic_file_operations",
               "test_idempotent_operations", "test_close_to_open_consistency",
               "test_nlm_basic_locking", "test_small_file_performance",
               "test_concurrent_writers", "test_large_file_sequential_io">>
        ELSE <<>>)
    \o (IF mount_type = "rw" /\ host_access = "read"
        THEN <<"test_readonly_mount_enforcement">> ELSE <<>>)
    \o (IF mount_type = "ro" /\ host_access = "read"
        THEN <<"test_readonly_mount_enforcement">> ELSE <<>>)

\* what the write attempt of a read-only enforcement test meets: the write
\* succeeds, OSError with errno 30 (EROFS), with errno 13 (EACCES), with another
\* errno, or an exception that is no OSError
ReadonlyWriteOutcomes == {"written", "erofs", "eacces", "oserror", "error"}

WriteDenied_ErofsOnly(outcome) == outcome = "erofs"

\* if e.errno in (30, 13), reached from `except (OSError, IOError) as e`
WriteDenied(outcome) == outcome \in {"erofs", "eacces"}

\* the outcome of a test when the appliance and the host behave as configured
Nominal(outcome) == outcome \in {"pass", "erofs"}

\* what can happen inside a test function: the checks pass, a check or an I/O
\* call inside its try block fails, the test directory cannot be created, or a
\* statement outside every try block raises (test_small_file_performance,
\* line 632); in test_concurrent_writers "partial" is a run in which every
\* worker returned and at least one of them returned False
N3TestOutcomes(f) ==
    IF f = "test_small_file_performance" THEN {"pass", "fail", "dirfail", "raise"}
    ELSE IF f = "test_readonly_mount_enforcement" THEN ReadonlyWriteOutcomes
    ELSE IF f = "test_concurrent_writers" THEN {"pass", "fail", "partial"}
    ELSE {"pass", "fail"}

\* log_result: the entry for text_logger and, when all_results is passed, for
\* all_results
n3_log_result(test_name, passed, withAllResults) ==
    [text    |-> <<[test_name |-> test_name, passed |-> passed]>>,
     results |-> IF withAllResults THEN <<[test |-> test_name, passed |-> passed]>> ELSE <<>>,
     raised  |-> FALSE]

\* one call of test function f: what it appends and whether it raises
n3_test(f, outcome) ==
    IF f = "test_small_file_performance"
    THEN CASE outcome = "raise"   -> [text |-> <<>>, results |-> <<>>, raised |-> TRUE]
           [] outcome = "dirfail" -> n3_log_result(N3TestName[f], FALSE, TRUE)
           [] outcome = "pass"    -> n3_log_result(N3TestName[f], TRUE, FALSE)
           [] OTHER               -> n3_log_result(N3TestName[f], FALSE, FALSE)
    ELSE IF f = "test_readonly_mount_enforcement"
    THEN n3_log_result(N3TestName[f], WriteDenied(outcome), TRUE)
    ELSE IF f = "test_concurrent_writers"
    THEN \* line 743: log_result(test_name, test_description, True, ...) whatever
         \* success_count is; False only from the except clause and the
         \* directory failure
         n3_log_result(N3TestName[f], outcome \in {"pass", "partial"}, TRUE)
    ELSE n3_log_result(N3TestName[f], outcome = "pass", TRUE)

\* print_summary: [raised, total, passed, failed, failedTests]
RECURSIVE FailedOf(_)
FailedOf(results) ==
    IF Len(results) = 0 THEN <<>>
    ELSE (IF results[1].passed THEN <<>> ELSE <<results[1].test>>) \o FailedOf(Tail(results))

RECURSIVE PassedCount(_)
PassedCount(results) ==
    IF Len(results) = 0 THEN 0
    ELSE (IF results[1].passed THEN 1 ELSE 0) + PassedCount(Tail(results))

print_summary(the_results) ==
    LET total  == Len(the_results)
        passed == PassedCount(the_results)
        failed == total - passed
    IN  [raised |-> total = 0,      \* 100*passed/total: ZeroDivisionError
         total |-> total, passed |-> passed, failed |-> failed,
         failedTests |-> IF total = 0 THEN <<>> ELSE FailedOf(the_results)]

(***************************************************************************)
(* app.py, audit_test_suite.py, exec_api.py, exec_ssh.py: the steps of     *)
(* main                                                                    *)
(***************************************************************************)
\* nfs3_mounts of main, by vendor (lines 23-56 and 130-133)
VendorNfs3Mounts(vendor) ==
    IF vendor = "Dell"
    THEN <<[mount_type |-> "rw", host_access |-> "write"],
           [mount_type |-> "rw", host_access |-> "read"]>>
    ELSE IF vendor = "NetApp"
    THEN <<[mount_type |-> "rw", host_access |-> "write"],
           [mount_type |-> "ro", host_access |-> "read"]>>
    ELSE <<>>

\* what the appliance's REST API answers to one request: 2xx, 409 Conflict,
\* 404 Not Found, another HTTP error, or no answer at all after every retry
\* (API_Connection_Manager._request raises the last connection error)
ApiOutcomes == {"ok", "conflict", "not_found", "http_error", "conn_error"}

\* the level at which audit_configure logs the answer to its one request.
\* POST (lines 137-146): 409, 200, 201, 204 are logged as executed, anything
\* else as failed.  DELETE (lines 148-154): api.delete returns
\* `response is not None and response.ok`, which is False for every 4xx
\* answer, 404 included.
AuditLogLevel(audit_action, api) ==
    IF audit_action = "Set Audit Settings"
    THEN IF api \in {"ok", "conflict"} THEN "info" ELSE "error"
    ELSE IF api = "ok" THEN "info" ELSE "error"

\* audit_configure(logger, appliance, audit_action) for the two actions main
\* uses: [raised, returned, sent, audit, level], audit being the set of
\* forwarding appliances and level the level of the log line for the request
audit_configure(vendor, appliance, audit_action, audit, api) ==
    IF vendor = "Dell"
    THEN [raised |-> FALSE, returned |-> "True", sent |-> FALSE, audit |-> audit,
          level |-> ""]
    ELSE IF vendor = "NetApp"
    THEN IF api = "conn_error"
         THEN [raised |-> TRUE, returned |-> "", sent |-> TRUE, audit |-> audit,
               level |-> ""]
         ELSE [raised |-> FALSE, returned |-> "True", sent |-> TRUE,
               audit |-> IF api # "ok" THEN audit
                         ELSE IF audit_action = "Set Audit Settings"
                              THEN audit \cup {appliance}
                              ELSE audit \ {appliance},
               level |-> AuditLogLevel(audit_action, api)]
    ELSE [raised |-> FALSE, returned |-> "None", sent |-> FALSE, audit |-> audit,
          level |-> ""]

\* generate_netapp_audit_events: SSHClient.connect() returns a truthy value
\* whether it connected or not, so a failed connect is followed by ssh.run on
\* an unconnected client, which raises
generate_netapp_audit_events(sshConnects) == [raised |-> ~sshConnects]

(***************************************************************************)
(* test_nfs.py: test discovery                                             *)
(***************************************************************************)
\* the functions of module test_nfs (inspect.getmembers(current_module,
\* inspect.isfunction)) with the first line of their source
ModuleFunctions ==
    {[name |-> "mount_nas", line |-> 110],
     [name |-> "unmount_nas", line |-> 218],
     [name |-> "nfs_test_suite", line |-> 102],
     [name |-> "get_test_functions", line |-> 231],
     [name |-> "create_test_directory", line |-> 246],
     [name |-> "log_result", line |-> 256],
     [name |-> "test_nfs_mount_options_verification", line |-> 286],
     [name |-> "test_nfs_readwrite_mount_enforcement", line |-> 353],
     [name |-> "test_nfs_basic_file_operations", line |-> 406],
     [name |-> "test_nfs_close_to_open_consistency", line |-> 458],
     [name |-> "test_nfs_small_file_performance", line |-> 513],
     [name |-> "test_nfs_concurrent_writers", line |-> 581],
     [name |-> "test_nfs_large_file_sequential_io", line |-> 644],
     [name |-> "test_nfs_readonly_mount_enforcement", line |-> 710],
     [name |-> "test_nfs_readonly_mount_read_operations", line |-> 748],
     [name |-> "test_nfs3_transport_protocol", line |-> 788],
     [name |-> "test_nfs3_nlm_basic_locking", line |-> 835],
     [name |-> "test_nfs3_idempotent_operations", line |-> 900],
     [name |-> "test_nfs4_transport_protocol", line |-> 965],
     [name |-> "test_nfs4_stateful_operations", line |-> 1012],
     [name |-> "test_nfs4_compound_operations", line |-> 1061],
     [name |-> "test_nfs4_delegation_basic", line |-> 1110],
     [name |-> "test_nfs4_acls", line |-> 1155],
     [name |-> "test_nfs4_named_attributes", line |-> 1204],
     [name |-> "test_nfs4_parallel_io_performance", line |-> 1244],
     [name |-> "test_nfs4_minorversion_features", line |-> 1309]}

RECURSIVE SortByLine_Descending(_)
SortByLine_Descending(fs) ==
    IF fs = {} THEN <<>>
    ELSE LET first == CHOOSE f \in fs : \A g \in fs : f.line >= g.line
         IN  <<first.name>> \o SortByLine_Descending(fs \ {first})

\* sorted(members, key=line): the names in ascending line order
RECURSIVE SortByLine(_)
SortByLine(fs) ==
    IF fs = {} THEN <<>>
    ELSE LET first == CHOOSE f \in fs : \A g \in fs : f.line <= g.line
         IN  <<first.name>> \o SortByLine(fs \ {first})

get_test_functions(prefix) ==
    SortByLine({f \in ModuleFunctions : StartsWith(f.name, prefix)})

v0_functions == get_test_functions("test_nfs_")

v3_functions == get_test_functions("test_nfs3_")

v4_functions == get_test_functions("test_nfs4_")

(***************************************************************************)
(* test_nfs.py: options_string (the str of MOUNT_OPTIONS), version gates   *)
(***************************************************************************)
BoolRepr(b) == IF b THEN "True" ELSE "False"

IntRepr(n) == IF n = NoneInt THEN "None" ELSE ToString(n)

StrRepr(x) == "'" \o x \o "'"

\* the generated __repr__ of the dataclass: its annotated fields, in order
MountOptionsRepr(o) ==
    "MOUNT_OPTIONS(majorvers=" \o IntRepr(o.majorvers)
    \o ", minorversion=" \o IntRepr(o.minorversion)
    \o ", pnfs=" \o BoolRepr(o.pnfs)
    \o ", nconnect=" \o BoolRepr(o.nconnect)
    \o ", nconnect_count=" \o IntRepr(o.nconnect_count)
    \o ", transport=" \o StrRepr(o.transport)
    \o ", rsize=" \o IntRepr(o.rsize)
    \o ", wsize=" \o IntRepr(o.wsize)
    \o ", timeo=" \o IntRepr(o.timeo)
    \o ", retrans=" \o IntRepr(o.retrans)
    \o ", soft=" \o BoolRepr(o.soft)
    \o ", intr=" \o BoolRepr(o.intr)
    \o ", noac=" \o BoolRepr(o.noac)
    \o ", actimeo=" \o IntRepr(o.actimeo)
    \o ", acregmin=" \o IntRepr(o.acregmin)
    \o ", acregmax=" \o IntRepr(o.acregmax)
    \o ", acdirmin=" \o IntRepr(o.acdirmin)
    \o ", acdirmax=" \o IntRepr(o.acdirmax)
    \o ", nosharecache=" \o BoolRepr(o.nosharecache)
    \o ", nordirplus=" \o BoolRepr(o.nordirplus)
    \o ", sec=" \o StrRepr(o.sec) \o ")"

\* line 181: if 'majorvers=3' in options_string
RunsV3Functions(options_string) == Contains(options_string, "majorvers=3")

RunsV4Functions_AnyVersion(options_string) == Contains(options_string, "majorvers=")

\* line 198: if 'majorvers=4' in options_string
RunsV4Functions(options_string) == Contains(options_string, "majorvers=4")

\* the functions nfs_test_suite calls for one verified mount, in order
SuitePlan(options) ==
    v0_functions
    \o (IF RunsV3Functions(MountOptionsRepr(options)) THEN v3_functions ELSE <<>>)
    \o (IF RunsV4Functions(MountOptionsRepr(options)) THEN v4_functions ELSE <<>>)

(***************************************************************************)
(* test_nfs.py: the test functions                                         *)
(***************************************************************************)
\* test_name of each test function
NfsTestName(f, options) ==
    CASE f = "test_nfs3_transport_protocol" -> "NFS3_transport_protocol"
      [] f = "test_nfs3_nlm_basic_locking" -> "NFS3_nlm_basic_locking"
      [] f = "test_nfs3_idempotent_operations" -> "idempotent_operations"
      [] f = "test_nfs4_transport_protocol" -> "NFS4_transport_protocol"
      [] f = "test_nfs4_minorversion_features" ->
             "nfs4_" \o ToString(options.minorversion) \o "_features"
      [] f = "test_nfs_large_file_sequential_io" -> "large_sequential_io"
      [] StartsWith(f, "test_nfs4_") -> SubSeq(f, 6, Len(f))
      [] OTHER -> SubSeq(f, 10, Len(f))

\* what can happen inside a test function: every check passes ("pass"), a
\* check or an I/O call inside its try block fails ("fail"), some workers of
\* its pool fail ("partial"), the test directory cannot be created
\* ("dirfail"), a statement outside every try block raises ("raise")
NfsTestOutcomes(f) ==
    CASE f = "test_nfs_small_file_performance" -> {"pass", "fail", "dirfail", "raise"}
      [] f \in {"test_nfs_concurrent_writers", "test_nfs4_parallel_io_performance"} ->
             {"pass", "fail", "partial"}
      [] f = "test_nfs_readonly_mount_enforcement" -> ReadonlyWriteOutcomes
      [] OTHER -> {"pass", "fail"}

\* log_result(log, test_name, ..., passed, message[, all_results])
nfs_log_result(test_name, passed, withAllResults) ==
    [results |-> IF withAllResults THEN <<[test |-> test_name, passed |-> passed]>> ELSE <<>>,
     raised  |-> FALSE]

\* one call of test function f: what it appends to all_results and whether it
\* raises
nfs_test(f, options, outcome) ==
    LET name == NfsTestName(f, options)
    IN  CASE f = "test_nfs_small_file_performance" ->
               (CASE outcome = "raise"   -> [results |-> <<>>, raised |-> TRUE]
                  [] outcome = "dirfail" -> nfs_log_result(name, FALSE, TRUE)
                  [] outcome = "pass"    -> nfs_log_result(name, TRUE, FALSE)
                  [] OTHER               -> nfs_log_result(name, FALSE, FALSE))
          [] f = "test_nfs_concurrent_writers" ->
               nfs_log_result(name, outcome \in {"pass", "partial"}, TRUE)
          [] f \in {"test_nfs3_transport_protocol", "test_nfs4_transport_protocol"} ->
               IF outcome = "pass"
               THEN nfs_log_result(name, TRUE, options.transport = "tcp")
               ELSE nfs_log_result(name, FALSE, TRUE)
          [] f = "test_nfs4_minorversion_features" ->
               nfs_log_result(name, outcome = "pass", FALSE)
          [] f = "test_nfs_readonly_mount_enforcement" ->
               nfs_log_result(name, WriteDenied(outcome), TRUE)
          [] OTHER ->
               nfs_log_result(name, outcome = "pass", TRUE)

(***************************************************************************)
(* Values of the variables of a component that is not running.             *)
(***************************************************************************)
NoDecode == [facility |-> "", severity |-> "", body |-> ""]

DecodeIdle == dPc = "idle" /\ dRaw = "" /\ dOut = NoDecode

NoCall == [op |-> "none", mount_point |-> "", dry_run |-> FALSE, cmd |-> "",
           before |-> EmptyOs, ret |-> RetNone, options |-> MOUNT_OPTIONS, opts |-> "",
           ran |-> FALSE]

MountsIdle == mRoot = TRUE /\ mOs = EmptyOs /\ mCalls = 0 /\ mLast = NoCall /\ mPrev = NoCall

NoArgs == [root |-> TRUE, uidGiven |-> TRUE, mountsGiven |-> TRUE]

RunnerIdle ==
    /\ rArgs = NoArgs /\ rMounts = <<>> /\ rPc = "idle" /\ rIdx = 0 /\ rTest = 0
    /\ rOs = EmptyOs /\ rMountPoint = "" /\ rAllResults = <<>> /\ rAllThe = <<>>
    /\ rTextLog = <<>> /\ rHist = <<>> /\ rExc = "" /\ rDev = 0

NoSyslog == [started |-> 0, stopped |-> 0, grace |-> TRUE, closedInGrace |-> TRUE]

AppIdle ==
    /\ aRoot = TRUE /\ aAppliances = <<>> /\ aPc = "idle" /\ aIdx = 0
    /\ aSyslog = NoSyslog /\ aAudit = {} /\ aHist = <<>> /\ aEffects = <<>> /\ aExc = ""

SuiteIdle ==
    /\ sRoot = TRUE /\ sMounts = <<>> /\ sPc = "idle" /\ sIdx = 0 /\ sPlan = <<>> /\ sTest = 0
    /\ sOs = EmptyOs /\ sMountPath = "" /\ sAllResults = <<>>
    /\ sHist = <<>> /\ sExc = "" /\ sDev = 0

\* the threads that run handlers: the UDP server's serve_forever thread and
\* one thread per TCP connection
Handlers == {"udp", "tcp1", "tcp2"}

CaptureIdle ==
    /\ cPc = "idle" /\ hPc = [h \in Handlers |-> "idle"] /\ hData = [h \in Handlers |-> ""]
    /\ hTmp = [h \in Handlers |-> 0] /\ cLock = "" /\ cCount = 0 /\ cClosed = FALSE
    /\ cFile = <<>> /\ cRecv = [h \in Handlers |-> <<>>] /\ cStopLog = <<>>

NoOptions == [raised |-> FALSE, value |-> ""]

OptionsIdle == oPc = "idle" /\ oIn = MOUNT_OPTIONS /\ oFn = "" /\ oOut = NoOptions

Nfs4Idle ==
    /\ nPc = "idle" /\ nIn = [minor_version |-> 0, mount_type |-> "rw"] /\ nTest = 0
    /\ nLive = FALSE /\ nOps = <<>> /\ nExc = ""

WorkersIdle == wPc = "idle" /\ wTest = "" /\ wWorkers = <<>> /\ wResults = <<>>

RequestIdle ==
    /\ qPc = "idle" /\ qIn = [retries |-> 0, connected |-> "never", method |-> "GET"]
    /\ qAttempt = 0
    /\ qLog = <<>> /\ qOut = ""

(***************************************************************************)
(* The decode specification: decode_priority applied to one received       *)
(* message.                                                                *)
(***************************************************************************)
MaxPri == 199

Bodies == {"", "m", "Oct 1 00:00:00 host app: msg", "a <13> b"}

Headers == {"<" \o ToString(p) \o ">" : p \in 0..MaxPri}
           \cup {"", "<", "<>", "<13", "13>", "<1a>", "<007>", "x<13>"}

Paddings == {"", " "}

DecodeInputs == {p \o h \o b \o q : p \in Paddings, h \in Headers, b \in Bodies, q \in Paddings}

InitDecode ==
    /\ dPc = "received"
    /\ dRaw \in DecodeInputs
    /\ dOut = NoDecode
    /\ MountsIdle
    /\ RunnerIdle
    /\ AppIdle
    /\ SuiteIdle
    /\ CaptureIdle
    /\ OptionsIdle
    /\ Nfs4Idle
    /\ WorkersIdle
    /\ RequestIdle

\* one call of decode_priority on the received bytes
Decode ==
    /\ dPc = "received"
    /\ dPc' = "decoded"
    /\ dOut' = decode_priority(dRaw)
    /\ UNCHANGED <<dRaw, notDecode>>

NextDecode == Decode

SpecDecode == InitDecode /\ [][NextDecode]_vars

(***************************************************************************)
(* The mount-helper specification: a caller makes up to MaxCalls calls of  *)
(* exec_mounts.mount_nas / unmount_nas against one host.                   *)
(***************************************************************************)
MaxCalls == 2

MountPoints == {"/mnt/a"}

\* the option sets a caller passes: NFSv3, NFSv4.1 and the invalid NFSv4.3
MountOptionInputs ==
    {MOUNT_OPTIONS,
     [MOUNT_OPTIONS EXCEPT !.majorvers = 4, !.minorversion = 1],
     [MOUNT_OPTIONS EXCEPT !.majorvers = 4, !.minorversion = 3]}

\* the mount points a caller can name: the fixed ones and those mount_nas
\* generated for "TMP"
KnownMountPoints == MountPoints \cup {ZCertName(i) : i \in 0..(mOs.tmp - 1)}

InitMounts ==
    /\ mRoot \in BOOLEAN
    /\ mOs \in {[dirs |-> d, live |-> {}, tmp |-> 0] : d \in SUBSET MountPoints}
    /\ mCalls = 0
    /\ mLast = NoCall
    /\ mPrev = NoCall
    /\ DecodeIdle
    /\ RunnerIdle
    /\ AppIdle
    /\ SuiteIdle
    /\ CaptureIdle
    /\ OptionsIdle
    /\ Nfs4Idle
    /\ WorkersIdle
    /\ RequestIdle

ExecMount ==
    /\ mCalls < MaxCalls
    /\ \E mp \in MountPoints \cup {"TMP"}, options \in MountOptionInputs, dry_run \in BOOLEAN,
          cmd \in MountCmdOutcomes, mkdirOk \in BOOLEAN :
          LET r == exec_mount_nas(mOs, mRoot, mp, options, dry_run,
                                  [mkdirOk |-> mkdirOk, cmd |-> cmd])
          IN  /\ mOs' = r.os
              /\ mLast' = [op |-> "mount", mount_point |-> mp, dry_run |-> dry_run,
                           cmd |-> cmd, before |-> mOs, ret |-> r.ret,
                           options |-> options, opts |-> r.opts, ran |-> r.ran]
    /\ mPrev' = mLast
    /\ mCalls' = mCalls + 1
    /\ UNCHANGED <<mRoot, notMounts>>

ExecUnmount ==
    /\ mCalls < MaxCalls
    /\ \E mp \in KnownMountPoints, dry_run \in BOOLEAN, rmdirOk \in BOOLEAN :
       \E cmd \in UmountCmdOutcomes(mOs, mp) :
          LET r == exec_unmount_nas(mOs, mRoot, mp, dry_run,
                                    [cmd |-> cmd, rmdirOk |-> rmdirOk])
          IN  /\ mOs' = r.os
              /\ mLast' = [op |-> "unmount", mount_point |-> mp, dry_run |-> dry_run,
                           cmd |-> cmd, before |-> mOs, ret |-> r.ret,
                           options |-> MOUNT_OPTIONS, opts |-> "",
                           ran |-> mRoot /\ ~dry_run /\ mp \in mOs.dirs]
    /\ mPrev' = mLast
    /\ mCalls' = mCalls + 1
    /\ UNCHANGED <<mRoot, notMounts>>

NextMounts == ExecMount \/ ExecUnmount

SpecMounts == InitMounts /\ [][NextMounts]_vars

(***************************************************************************)
(* The runner specification: one call of nfs3_test_suite_runner.           *)
(***************************************************************************)
MaxTargets == 2

\* the host is given at most MaxDeviations outcomes other than the nominal
\* one (a command that fails, a test that does not pass, a report that cannot
\* be written) in one run
MaxDeviations == 2

\* the (mount_type, host_access) pairs of the configured nfs3_mounts
TargetKinds ==
    {[mount_type |-> "rw", host_access |-> "write"],
     [mount_type |-> "rw", host_access |-> "read"],
     [mount_type |-> "ro", host_access |-> "read"]}

TargetLists == UNION {[1..n -> TargetKinds] : n \in 0..MaxTargets}

Cost(nominal) == IF nominal THEN 0 ELSE 1

CurrentPlan == run_tests_plan(rMounts[rIdx].mount_type, rMounts[rIdx].host_access)

InitRunner ==
    /\ rArgs \in [root : BOOLEAN, uidGiven : BOOLEAN, mountsGiven : BOOLEAN]
    /\ rMounts \in TargetLists
    /\ ~rArgs.mountsGiven => rMounts = <<>>
    /\ rPc = "entry" /\ rIdx = 0 /\ rTest = 0
    /\ rOs = EmptyOs /\ rMountPoint = "" /\ rAllResults = <<>> /\ rAllThe = <<>>
    /\ rTextLog = <<>> /\ rHist = <<>> /\ rExc = "" /\ rDev = 0
    /\ DecodeIdle
    /\ MountsIdle
    /\ AppIdle
    /\ SuiteIdle
    /\ CaptureIdle
    /\ OptionsIdle
    /\ Nfs4Idle
    /\ WorkersIdle
    /\ RequestIdle

\* lines 991-1013: the three argument checks
RunnerEntry ==
    /\ rPc = "entry"
    /\ IF rArgs.root /\ rArgs.uidGiven /\ rArgs.mountsGiven
       THEN rPc' = "loop" /\ rIdx' = 1
       ELSE rPc' = "returned" /\ rIdx' = rIdx
    /\ rAllThe' = <<>>
    /\ UNCHANGED <<rArgs, rMounts, rTest, rOs, rMountPoint, rAllResults, rTextLog,
                   rHist, rExc, rDev, notRunner>>

\* lines 1020-1057: next mount_config, a new text_logger, mount_nas and the
\* unpacking of what it returned
RunnerMount ==
    /\ rPc = "loop" /\ rIdx <= Len(rMounts)
    /\ \E mkdtempOk \in BOOLEAN, cmd \in MountCmdOutcomes :
          LET r == n3_mount_nas(rOs, [mkdtempOk |-> mkdtempOk, cmd |-> cmd])
              h == [mount |-> r.ret, created |-> r.os.dirs # rOs.dirs, invoked |-> <<>>,
                    outcomes |-> <<>>, raisedIn |-> "", summarised |-> FALSE, unmounted |-> FALSE]
          IN  /\ rDev + Cost(mkdtempOk /\ cmd = "ok") <= MaxDeviations
              /\ rDev' = rDev + Cost(mkdtempOk /\ cmd = "ok")
              /\ rOs' = r.os
              /\ rHist' = Append(rHist, h)
              /\ rTextLog' = <<>>
              /\ IF r.ret.kind # "tuple"
                 THEN \* cannot unpack a bool or None into (mount_state, mount_point)
                      /\ rPc' = "raised" /\ rExc' = "TypeError"
                      /\ UNCHANGED <<rIdx, rTest, rMountPoint, rAllResults>>
                 ELSE IF r.ret.first
                 THEN /\ rPc' = "tests" /\ rTest' = 0 /\ rAllResults' = <<>>
                      /\ rMountPoint' = r.ret.second
                      /\ UNCHANGED <<rIdx, rExc>>
                 ELSE /\ rPc' = "loop" /\ rIdx' = rIdx + 1
                      /\ rMountPoint' = r.ret.second
                      /\ UNCHANGED <<rTest, rAllResults, rExc>>
    /\ UNCHANGED <<rArgs, rMounts, rAllThe, notRunner>>

\* one call of a test function made by run_tests
RunnerTest ==
    /\ rPc = "tests" /\ rTest < Len(CurrentPlan)
    /\ LET f == CurrentPlan[rTest + 1]
       IN  \E outcome \in N3TestOutcomes(f) :
              LET t == n3_test(f, outcome)
              IN  /\ rDev + Cost(Nominal(outcome)) <= MaxDeviations
                  /\ rDev' = rDev + Cost(Nominal(outcome))
                  /\ rHist' = [rHist EXCEPT ![Len(rHist)].invoked = Append(@, f),
                                            ![Len(rHist)].outcomes = Append(@, outcome),
                                            ![Len(rHist)].raisedIn = IF t.raised THEN f ELSE @]
                  /\ rAllResults' = rAllResults \o t.results
                  /\ rTextLog' = rTextLog \o t.text
                  /\ IF t.raised
                     THEN rPc' = "raised" /\ rExc' = "OSError" /\ rTest' = rTest
                     ELSE rPc' = rPc /\ rExc' = rExc /\ rTest' = rTest + 1
    /\ UNCHANGED <<rArgs, rMounts, rIdx, rOs, rMountPoint, rAllThe, notRunner>>

\* lines 1059-1070: run_tests returns, the per-target summary and report
RunnerSummary ==
    /\ rPc = "tests" /\ rTest = Len(CurrentPlan)
    /\ rAllThe' = rAllThe \o rAllResults
    /\ \E reportOk \in BOOLEAN :
          /\ rDev + Cost(reportOk) <= MaxDeviations
          /\ rDev' = rDev + Cost(reportOk)
          /\ IF print_summary(rAllResults).raised
             THEN rPc' = "raised" /\ rExc' = "ZeroDivisionError" /\ rHist' = rHist
             ELSE IF ~reportOk
             THEN rPc' = "raised" /\ rExc' = "OSError"
                  /\ rHist' = [rHist EXCEPT ![Len(rHist)].summarised = TRUE]
             ELSE rPc' = "unmount" /\ rExc' = rExc
                  /\ rHist' = [rHist EXCEPT ![Len(rHist)].summarised = TRUE]
    /\ UNCHANGED <<rArgs, rMounts, rIdx, rTest, rOs, rMountPoint, rAllResults, rTextLog,
                   notRunner>>

\* lines 1073-1075: unmount_nas(mount_point)
RunnerUnmount ==
    /\ rPc = "unmount"
    /\ \E rmdirOk \in BOOLEAN :
       \E cmd \in UmountCmdOutcomes(rOs, rMountPoint) :
          LET r == n3_unmount_nas(rOs, rMountPoint, [cmd |-> cmd, rmdirOk |-> rmdirOk])
          IN  /\ rDev + Cost(rmdirOk /\ cmd = "ok") <= MaxDeviations
              /\ rDev' = rDev + Cost(rmdirOk /\ cmd = "ok")
              /\ rOs' = r.os
    /\ rHist' = [rHist EXCEPT ![Len(rHist)].unmounted = TRUE]
    /\ rPc' = "loop"
    /\ rIdx' = rIdx + 1
    /\ UNCHANGED <<rArgs, rMounts, rTest, rMountPoint, rAllResults, rAllThe, rTextLog,
                   rExc, notRunner>>

\* lines 1078-1086: the loop is over, the final summary
RunnerFinal ==
    /\ rPc = "loop" /\ rIdx > Len(rMounts)
    /\ IF print_summary(rAllThe).raised
       THEN rPc' = "raised" /\ rExc' = "ZeroDivisionError"
       ELSE rPc' = "returned" /\ rExc' = rExc
    /\ UNCHANGED <<rArgs, rMounts, rIdx, rTest, rOs, rMountPoint, rAllResults, rAllThe,
                   rTextLog, rHist, rDev, notRunner>>

RunnerStep ==
    \/ RunnerEntry
    \/ RunnerMount
    \/ RunnerTest
    \/ RunnerSummary
    \/ RunnerUnmount
    \/ RunnerFinal

NextRunner == RunnerStep

SpecRunner == InitRunner /\ [][NextRunner]_vars

(***************************************************************************)
(* The application specification: app.main, with nfs3_test_suite_runner    *)
(* run step by step inside it.                                             *)
(***************************************************************************)
MaxAppliances == 2

Vendors == {"Dell", "NetApp"}

ApplianceLists == UNION {[1..n -> Vendors] : n \in 0..MaxAppliances}

InitApp ==
    /\ aRoot \in BOOLEAN
    /\ aAppliances \in ApplianceLists
    /\ aPc = "for" /\ aIdx = 1
    /\ aSyslog = NoSyslog /\ aAudit = {} /\ aHist = <<>> /\ aEffects = <<>> /\ aExc = ""
    /\ RunnerIdle
    /\ DecodeIdle
    /\ MountsIdle
    /\ SuiteIdle
    /\ CaptureIdle
    /\ OptionsIdle
    /\ Nfs4Idle
    /\ WorkersIdle
    /\ RequestIdle

NewAppliance(vendor) ==
    [vendor |-> vendor, set |-> "none", threw |-> FALSE, clears |-> 0, answers |-> <<>>]

\* lines 112-118: next appliance, start_syslog_server.  The bind of port
\* 55555 can fail; while the listeners of an earlier call still hold the port
\* whether it fails depends on the platform's SO_REUSEADDR rules.
AppStartSyslog ==
    /\ aPc = "for" /\ aIdx <= Len(aAppliances)
    /\ aHist' = Append(aHist, NewAppliance(aAppliances[aIdx]))
    /\ aEffects' = Append(aEffects, "syslog_bind")
    /\ \E bindOk \in BOOLEAN :
          LET cost == IF aSyslog.started > aSyslog.stopped THEN 0 ELSE Cost(bindOk)
          IN  /\ rDev + cost <= MaxDeviations
              /\ rDev' = rDev + cost
              /\ IF bindOk
                 THEN /\ aSyslog' = [aSyslog EXCEPT !.started = @ + 1]
                      /\ aPc' = "configure" /\ aExc' = aExc
                 ELSE /\ aSyslog' = aSyslog
                      /\ aPc' = "crashed" /\ aExc' = "OSError"
    /\ UNCHANGED <<aRoot, aAppliances, aIdx, aAudit, notApp,
                   rArgs, rMounts, rPc, rIdx, rTest, rOs, rMountPoint, rAllResults,
                   rAllThe, rTextLog, rHist, rExc>>

\* line 121: audit_configure(..., 'Set Audit Settings')
AppConfigure ==
    /\ aPc = "configure"
    /\ \E api \in ApiOutcomes :
          LET r == audit_configure(aAppliances[aIdx], aIdx, "Set Audit Settings", aAudit, api)
          IN  /\ rDev + Cost(api = "ok") <= MaxDeviations
              /\ rDev' = rDev + Cost(api = "ok")
              /\ aAudit' = r.audit
              /\ aEffects' = IF r.sent THEN Append(aEffects, "audit_set") ELSE aEffects
              /\ aSyslog' = [aSyslog EXCEPT !.grace = IF r.sent THEN FALSE ELSE @]
              /\ IF r.raised
                 THEN /\ aPc' = "crashed" /\ aExc' = "ConnectionError"
                      /\ aHist' = [aHist EXCEPT ![aIdx].set = "raised"]
                 ELSE /\ aPc' = "events" /\ aExc' = aExc
                      /\ aHist' = [aHist EXCEPT
                            ![aIdx].set = "ok",
                            ![aIdx].answers =
                                IF r.sent
                                THEN Append(@, [action |-> "Set Audit Settings",
                                                api |-> api, level |-> r.level])
                                ELSE @]
    /\ UNCHANGED <<aRoot, aAppliances, aIdx, notApp,
                   rArgs, rMounts, rPc, rIdx, rTest, rOs, rMountPoint, rAllResults,
                   rAllThe, rTextLog, rHist, rExc>>

\* lines 124-126: generate_netapp_audit_events, then time.sleep(5)
AppEvents ==
    /\ aPc = "events"
    /\ aEffects' = Append(aEffects, "ssh_connect")
    /\ \E sshConnects \in BOOLEAN :
          /\ rDev + Cost(sshConnects) <= MaxDeviations
          /\ rDev' = rDev + Cost(sshConnects)
          /\ IF generate_netapp_audit_events(sshConnects).raised
             THEN /\ aPc' = "crashed" /\ aExc' = "SSHException"
                  /\ aHist' = [aHist EXCEPT ![aIdx].threw = TRUE]
                  /\ aSyslog' = [aSyslog EXCEPT !.grace = FALSE]
             ELSE /\ aPc' = "runner" /\ aExc' = aExc /\ aHist' = aHist
                  /\ aSyslog' = [aSyslog EXCEPT !.grace = TRUE]
    /\ UNCHANGED <<aRoot, aAppliances, aIdx, aAudit, notApp,
                   rArgs, rMounts, rPc, rIdx, rTest, rOs, rMountPoint, rAllResults,
                   rAllThe, rTextLog, rHist, rExc>>

\* lines 130-136: the call nfs3_test_suite_runner(report_folder, user_uid,
\* user_gid, vendor_nfs3_mounts)
AppCallRunner ==
    /\ aPc = "runner"
    /\ aPc' = "in_runner"
    /\ rArgs' = [root |-> aRoot, uidGiven |-> TRUE, mountsGiven |-> TRUE]
    /\ rMounts' = VendorNfs3Mounts(aAppliances[aIdx])
    /\ rPc' = "entry" /\ rIdx' = 0 /\ rTest' = 0 /\ rMountPoint' = ""
    /\ rAllResults' = <<>> /\ rAllThe' = <<>> /\ rTextLog' = <<>> /\ rHist' = <<>>
    /\ rExc' = ""
    /\ aSyslog' = [aSyslog EXCEPT !.grace = FALSE]
    /\ UNCHANGED <<aRoot, aAppliances, aIdx, aAudit, aHist, aEffects, aExc,
                   rOs, rDev, notApp>>

\* the runner returned and time.sleep(5) of line 139 ran, or an exception
\* left the runner
AppRunnerReturn ==
    /\ aPc = "in_runner" /\ rPc \in {"returned", "raised"}
    /\ IF rPc = "raised"
       THEN /\ aPc' = "crashed" /\ aExc' = rExc
            /\ aHist' = [aHist EXCEPT ![aIdx].threw = TRUE]
            /\ aSyslog' = aSyslog
       ELSE /\ aPc' = "clear" /\ aExc' = aExc /\ aHist' = aHist
            /\ aSyslog' = [aSyslog EXCEPT !.grace = TRUE]
    /\ UNCHANGED <<aRoot, aAppliances, aIdx, aAudit, aEffects, runnerVars, notApp>>

\* lines 139-143: audit_configure(..., 'Delete Audit Settings')
AppClear ==
    /\ aPc = "clear"
    /\ \E api \in ApiOutcomes :
          LET r == audit_configure(aAppliances[aIdx], aIdx, "Delete Audit Settings", aAudit, api)
          IN  /\ rDev + Cost(api = "ok") <= MaxDeviations
              /\ rDev' = rDev + Cost(api = "ok")
              /\ aAudit' = r.audit
              /\ aEffects' = IF r.sent THEN Append(aEffects, "audit_delete") ELSE aEffects
              /\ aSyslog' = [aSyslog EXCEPT !.grace = IF r.sent THEN FALSE ELSE @]
              /\ aHist' = [aHist EXCEPT
                    ![aIdx].clears = @ + 1,
                    ![aIdx].answers =
                        IF r.sent /\ ~r.raised
                        THEN Append(@, [action |-> "Delete Audit Settings",
                                        api |-> api, level |-> r.level])
                        ELSE @]
              /\ IF r.raised
                 THEN aPc' = "crashed" /\ aExc' = "ConnectionError" /\ aIdx' = aIdx
                 ELSE aPc' = "for" /\ aExc' = aExc /\ aIdx' = aIdx + 1
    /\ UNCHANGED <<aRoot, aAppliances, notApp,
                   rArgs, rMounts, rPc, rIdx, rTest, rOs, rMountPoint, rAllResults,
                   rAllThe, rTextLog, rHist, rExc>>

\* lines 146-148: after the loop, stop_syslog_server on the handles of the
\* last start_syslog_server; with no appliance the names are unbound.
\* stop_syslog_server closes the capture file (syslog_manager.py line 37)
\* and sleeps afterwards (line 40).
AppStopSyslog ==
    /\ aPc = "for" /\ aIdx > Len(aAppliances)
    /\ IF Len(aAppliances) = 0
       THEN aPc' = "crashed" /\ aExc' = "UnboundLocalError" /\ aSyslog' = aSyslog
            /\ aEffects' = aEffects
       ELSE aPc' = "done" /\ aExc' = aExc
            /\ aSyslog' = [aSyslog EXCEPT !.stopped = @ + 1,
                                         !.closedInGrace = aSyslog.grace,
                                         !.grace = TRUE]
            /\ aEffects' = Append(aEffects, "syslog_stop")
    /\ UNCHANGED <<aRoot, aAppliances, aIdx, aAudit, aHist, runnerVars, notApp>>

AppStep ==
    \/ AppStartSyslog
    \/ AppConfigure
    \/ AppEvents
    \/ AppCallRunner
    \/ AppRunnerReturn
    \/ AppClear
    \/ AppStopSyslog

NextApp == AppStep \/ RunnerStep

SpecApp == InitApp /\ [][NextApp]_vars

\* lines 153-154: `if __name__ == "__main__": main()`.  The interpreter exits
\* with status 0 when main returns and with 1 when an exception leaves it;
\* nothing calls sys.exit and the return value of the runner is not used.
ExitStatus == IF aPc = "crashed" THEN 1 ELSE 0

(***************************************************************************)
(* The suite specification: one call of test_nfs.nfs_test_suite.           *)
(***************************************************************************)
MaxSuiteMounts == 1

\* the host is given at most MaxSuiteDeviations outcomes other than the nominal
\* one in one run of the suite
MaxSuiteDeviations == 2

\* the options of the mounts handed to the suite: NFSv3 over tcp, NFSv3 over
\* udp, NFSv4.1, and NFSv4 with a minor version the option builder refuses
SuiteOptionInputs ==
    {MOUNT_OPTIONS,
     [MOUNT_OPTIONS EXCEPT !.transport = "udp"],
     [MOUNT_OPTIONS EXCEPT !.majorvers = 4, !.minorversion = 1],
     [MOUNT_OPTIONS EXCEPT !.majorvers = 4, !.minorversion = 3]}

SuiteMountLists == UNION {[1..n -> SuiteOptionInputs] : n \in 0..MaxSuiteMounts}

\* lines 23-41: the one entry of preset_mounts that is not commented out
preset_mounts == <<MOUNT_OPTIONS>>

SuiteOptions == sMounts[sIdx]

InitSuite ==
    /\ sRoot \in BOOLEAN
    /\ sMounts \in SuiteMountLists
    /\ sPc = "entry" /\ sIdx = 0 /\ sPlan = <<>> /\ sTest = 0
    /\ sOs = EmptyOs /\ sMountPath = "" /\ sAllResults = <<>>
    /\ sHist = <<>> /\ sExc = "" /\ sDev = 0
    /\ DecodeIdle
    /\ MountsIdle
    /\ RunnerIdle
    /\ AppIdle
    /\ CaptureIdle
    /\ OptionsIdle
    /\ Nfs4Idle
    /\ WorkersIdle
    /\ RequestIdle

\* lines 113-126: discovery, the preset list for an empty mounts_list
SuiteEntry ==
    /\ sPc = "entry"
    /\ sMounts' = IF Len(sMounts) = 0 THEN preset_mounts ELSE sMounts
    /\ sAllResults' = <<>>
    /\ sPc' = "loop" /\ sIdx' = 1
    /\ UNCHANGED <<sRoot, sPlan, sTest, sOs, sMountPath, sHist, sExc, sDev, notSuite>>

\* lines 127-164, 181, 198, 215-224: next nfs_mount, mount_nas, the unpacking
\* of what it returned, os.path.ismount, options_string and the two gates on it
SuiteMount ==
    /\ sPc = "loop" /\ sIdx <= Len(sMounts)
    /\ \E mkdirOk \in BOOLEAN, cmd \in MountCmdOutcomes :
          LET r == exec_mount_nas(sOs, sRoot, "TMP", SuiteOptions, FALSE,
                                  [mkdirOk |-> mkdirOk, cmd |-> cmd])
              verified == r.ret.kind = "tuple" /\ r.ret.first /\ r.ret.second \in r.os.live
              h == [options |-> SuiteOptions, mount |-> r.ret, verified |-> verified,
                    invoked |-> <<>>, outcomes |-> <<>>, base |-> Len(sAllResults), unmount |-> RetNone,
                    done |-> FALSE]
          IN  /\ sDev + Cost(mkdirOk /\ cmd = "ok") <= MaxSuiteDeviations
              /\ sDev' = sDev + Cost(mkdirOk /\ cmd = "ok")
              /\ sOs' = r.os
              /\ sHist' = Append(sHist, h)
              /\ sTest' = 0
              /\ sPlan' = IF verified THEN SuitePlan(SuiteOptions) ELSE <<>>
              /\ CASE r.ret.kind = "raise" ->
                        /\ sPc' = "raised" /\ sExc' = r.ret.second
                        /\ UNCHANGED <<sIdx, sMountPath>>
                   [] r.ret.kind \in {"bool", "None"} ->
                        \* cannot unpack a bool into (mount_status, mount_path)
                        /\ sPc' = "raised" /\ sExc' = "TypeError"
                        /\ UNCHANGED <<sIdx, sMountPath>>
                   [] OTHER ->
                        /\ sMountPath' = r.ret.second
                        /\ sExc' = sExc
                        /\ IF ~r.ret.first THEN sPc' = "loop" /\ sIdx' = sIdx + 1
                           ELSE /\ sPc' = IF verified THEN "tests" ELSE "unmount"
                                /\ sIdx' = sIdx
    /\ UNCHANGED <<sRoot, sMounts, sAllResults, notSuite>>

\* lines 167-212: one iteration of the three `for name, func in ...` loops,
\* the call of func inside try / except Exception
SuiteTest ==
    /\ sPc = "tests" /\ sTest < Len(sPlan)
    /\ \E outcome \in NfsTestOutcomes(sPlan[sTest + 1]) :
          LET t == nfs_test(sPlan[sTest + 1], SuiteOptions, outcome)
          IN  /\ sDev + Cost(Nominal(outcome)) <= MaxSuiteDeviations
              /\ sDev' = sDev + Cost(Nominal(outcome))
              /\ sAllResults' = sAllResults \o t.results
              /\ sHist' = [sHist EXCEPT ![Len(sHist)].invoked = Append(@, sPlan[sTest + 1]),
                                        ![Len(sHist)].outcomes = Append(@, outcome)]
    /\ sTest' = sTest + 1
    /\ sPc' = IF sTest + 1 = Len(sPlan) THEN "unmount" ELSE "tests"
    /\ UNCHANGED <<sRoot, sMounts, sIdx, sPlan, sOs, sMountPath, sExc, notSuite>>

\* lines 217-220: unmount_nas, its return value unused
SuiteUnmount ==
    /\ sPc = "unmount"
    /\ \E rmdirOk \in BOOLEAN :
       \E cmd \in UmountCmdOutcomes(sOs, sMountPath) :
          LET r == exec_unmount_nas(sOs, sRoot, sMountPath, FALSE,
                                    [cmd |-> cmd, rmdirOk |-> rmdirOk])
              nominal == rmdirOk /\ (cmd = "ok" \/ (cmd = "fail" /\ sMountPath \notin sOs.live))
          IN  /\ sDev + Cost(nominal) <= MaxSuiteDeviations
              /\ sDev' = sDev + Cost(nominal)
              /\ sOs' = r.os
              /\ sHist' = [sHist EXCEPT ![Len(sHist)].unmount = r.ret,
                                        ![Len(sHist)].done = TRUE]
    /\ sPc' = "loop"
    /\ sIdx' = sIdx + 1
    /\ UNCHANGED <<sRoot, sMounts, sPlan, sTest, sMountPath, sAllResults, sExc, notSuite>>

\* the `for nfs_mount in mounts_list` loop is over
SuiteReturn ==
    /\ sPc = "loop" /\ sIdx > Len(sMounts)
    /\ sPc' = "returned"
    /\ UNCHANGED <<sRoot, sMounts, sIdx, sPlan, sTest, sOs, sMountPath, sAllResults,
                   sHist, sExc, sDev, notSuite>>

NextSuite ==
    \/ SuiteEntry
    \/ SuiteMount
    \/ SuiteTest
    \/ SuiteUnmount
    \/ SuiteReturn

SpecSuite == InitSuite /\ [][NextSuite]_vars

(***************************************************************************)
(* The capture specification: the handler threads of the syslog capture    *)
(* service and the thread that calls stop_syslog_server.                   *)
(***************************************************************************)
MaxMessages == 1

\* what a sender puts on the wire: a message with a <PRI> header, one without
CaptureInputs == {"<13>m", "junk"}

Proto(h) == IF h = "udp" THEN "UDP" ELSE "TCP"

\* SyslogCapture.handle, line 65 (time stamp and peer address left out)
CaptureLine(h, data) ==
    LET d == decode_priority(data)
    IN  Proto(h) \o " [" \o d.facility \o "." \o d.severity \o "] " \o d.body

InitCapture ==
    /\ cPc = "running"
    /\ hPc = [h \in Handlers |-> IF h = "udp" THEN "idle" ELSE "unconnected"]
    /\ hData = [h \in Handlers |-> ""]
    /\ hTmp = [h \in Handlers |-> 0]
    /\ cLock = "" /\ cCount = 0 /\ cClosed = FALSE /\ cFile = <<>>
    /\ cRecv = [h \in Handlers |-> <<>>]
    /\ cStopLog = <<>>
    /\ DecodeIdle
    /\ MountsIdle
    /\ RunnerIdle
    /\ AppIdle
    /\ SuiteIdle
    /\ OptionsIdle
    /\ Nfs4Idle
    /\ WorkersIdle
    /\ RequestIdle

TcpLoopBusy_SingleThreaded(hpc) ==
    \E h \in Handlers \ {"udp"} : hpc[h] \notin {"unconnected", "ended"}

\* class TCPSyslogServer(socketserver.ThreadingTCPServer): process_request
\* hands each accepted connection to a thread of its own, so the accept loop
\* of serve_forever is never inside a handler
TcpLoopBusy(hpc) == FALSE

\* TCPSyslogServer accepts a connection and starts its thread, while
\* serve_forever runs
TcpAccept(h) ==
    /\ h # "udp" /\ hPc[h] = "unconnected"
    /\ ~TcpLoopBusy(hPc)
    /\ "tcp.shutdown" \notin {cStopLog[i] : i \in DOMAIN cStopLog}
    /\ hPc' = [hPc EXCEPT ![h] = "idle"]
    /\ UNCHANGED <<cPc, hData, hTmp, cLock, cCount, cClosed, cFile, cRecv, cStopLog,
                   notCapture>>

\* UDPSyslogHandler.handle line 86 / TCPSyslogHandler.handle lines 104-107:
\* a datagram or a line arrives.  serve_forever takes no datagram once
\* shutdown was requested; a connection thread reads on.
Receive(h) ==
    /\ hPc[h] = "idle" /\ Len(cRecv[h]) < MaxMessages
    /\ h = "udp" => cPc = "running"
    /\ \E data \in CaptureInputs :
          /\ hData' = [hData EXCEPT ![h] = IF h = "udp" THEN data ELSE Strip(data)]
          /\ cRecv' = [cRecv EXCEPT ![h] = Append(@, data)]
    /\ hPc' = [hPc EXCEPT ![h] = "handle"]
    /\ UNCHANGED <<cPc, hTmp, cLock, cCount, cClosed, cFile, cStopLog, notCapture>>

\* TCPSyslogHandler.handle lines 105-106: readline returns b'' at end of stream
TcpEof(h) ==
    /\ h # "udp" /\ hPc[h] = "idle"
    /\ hPc' = [hPc EXCEPT ![h] = "ended"]
    /\ UNCHANGED <<cPc, hData, hTmp, cLock, cCount, cClosed, cFile, cRecv, cStopLog,
                   notCapture>>

LockFree_Always(lock) == TRUE

\* threading.Lock: free
LockFree(lock) == lock = ""

\* SyslogCapture.handle line 67: with self.lock
Acquire(h) ==
    /\ hPc[h] = "handle" /\ LockFree(cLock)
    /\ cLock' = h
    /\ hPc' = [hPc EXCEPT ![h] = "locked"]
    /\ UNCHANGED <<cPc, hData, hTmp, cCount, cClosed, cFile, cRecv, cStopLog, notCapture>>

\* line 68, self.count += 1: the load
CountLoad(h) ==
    /\ hPc[h] = "locked"
    /\ hTmp' = [hTmp EXCEPT ![h] = cCount]
    /\ hPc' = [hPc EXCEPT ![h] = "loaded"]
    /\ UNCHANGED <<cPc, hData, cLock, cCount, cClosed, cFile, cRecv, cStopLog, notCapture>>

\* line 68, self.count += 1: the store
CountStore(h) ==
    /\ hPc[h] = "loaded"
    /\ cCount' = hTmp[h] + 1
    /\ hPc' = [hPc EXCEPT ![h] = "counted"]
    /\ UNCHANGED <<cPc, hData, hTmp, cLock, cClosed, cFile, cRecv, cStopLog, notCapture>>

\* line 70, self._file.write(line + '\n'): the call begins.  On a closed file
\* it raises ValueError: the with statement releases the lock; the exception
\* ends a TCP handler (except Exception: pass, lines 108-109) and is reported
\* by the UDP server's handle_error, which serves on.
WriteBegin(h) ==
    /\ hPc[h] = "counted"
    /\ IF cClosed
       THEN /\ hPc' = [hPc EXCEPT ![h] = IF h = "udp" THEN "idle" ELSE "ended"]
            /\ cLock' = IF cLock = h THEN "" ELSE cLock
            /\ cFile' = cFile
       ELSE /\ hPc' = [hPc EXCEPT ![h] = "writing"]
            /\ cLock' = cLock
            /\ cFile' = Append(cFile, [by |-> h, n |-> Len(cRecv[h]), part |-> "text",
                                       text |-> CaptureLine(h, hData[h])])
    /\ UNCHANGED <<cPc, hData, hTmp, cCount, cClosed, cRecv, cStopLog, notCapture>>

\* line 70: the rest of the line reaches the file, the with statement ends
WriteEnd(h) ==
    /\ hPc[h] = "writing"
    /\ cFile' = Append(cFile, [by |-> h, n |-> Len(cRecv[h]), part |-> "nl", text |-> "\n"])
    /\ cLock' = IF cLock = h THEN "" ELSE cLock
    /\ hPc' = [hPc EXCEPT ![h] = "idle"]
    /\ UNCHANGED <<cPc, hData, hTmp, cCount, cClosed, cRecv, cStopLog, notCapture>>

\* the steps of handler thread h
Serve(h) ==
    \/ TcpAccept(h)
    \/ Receive(h)
    \/ TcpEof(h)
    \/ Acquire(h)
    \/ CountLoad(h)
    \/ CountStore(h)
    \/ WriteBegin(h)
    \/ WriteEnd(h)

\* the steps of h that need nothing from its sender: SyslogCapture.handle
Handle(h) ==
    \/ Acquire(h)
    \/ CountLoad(h)
    \/ CountStore(h)
    \/ WriteBegin(h)
    \/ WriteEnd(h)

HandlerStep == \E h \in Handlers : Serve(h)

\* stop_syslog_server line 34: udp.shutdown() asks serve_forever to stop
StopBegin ==
    /\ cPc = "running"
    /\ cPc' = "udp_shutdown"
    /\ UNCHANGED <<hPc, hData, hTmp, cLock, cCount, cClosed, cFile, cRecv, cStopLog,
                   notCapture>>

\* line 34: udp.shutdown() returns once serve_forever has left its loop, that
\* is once the handler of the datagram in hand has returned
StopUdp ==
    /\ cPc = "udp_shutdown" /\ hPc["udp"] = "idle"
    /\ hPc' = [hPc EXCEPT !["udp"] = "ended"]
    /\ cStopLog' = Append(cStopLog, "udp.shutdown")
    /\ cPc' = "tcp_shutdown"
    /\ UNCHANGED <<hData, hTmp, cLock, cCount, cClosed, cFile, cRecv, notCapture>>

\* line 35: tcp.shutdown() returns once the accept loop has left
\* serve_forever; connection threads run on
StopTcp ==
    /\ cPc = "tcp_shutdown" /\ ~TcpLoopBusy(hPc)
    /\ cStopLog' = Append(cStopLog, "tcp.shutdown")
    /\ cPc' = "summary"
    /\ UNCHANGED <<hPc, hData, hTmp, cLock, cCount, cClosed, cFile, cRecv, notCapture>>

\* line 36: capture.summary()
StopSummary ==
    /\ cPc = "summary"
    /\ cStopLog' = Append(cStopLog, "capture.summary")
    /\ cPc' = "close"
    /\ UNCHANGED <<hPc, hData, hTmp, cLock, cCount, cClosed, cFile, cRecv, notCapture>>

\* line 37: capture.close(), flush and close without taking the lock
StopClose ==
    /\ cPc = "close"
    /\ cClosed' = TRUE
    /\ cStopLog' = Append(cStopLog, "capture.close")
    /\ cPc' = "stopped"
    /\ UNCHANGED <<hPc, hData, hTmp, cLock, cCount, cFile, cRecv, notCapture>>

StopStep ==
    \/ StopBegin
    \/ StopUdp
    \/ StopTcp
    \/ StopSummary
    \/ StopClose

NextCapture == HandlerStep \/ StopStep

SpecCapture == InitCapture /\ [][NextCapture]_vars

\* the handler threads alone, the service never stopped
NextHandlers == HandlerStep

SpecHandlers == InitCapture /\ [][NextHandlers]_vars

\* a stalled sender: connection tcp1 was accepted and its thread waits in
\* rfile.readline() (line 104) for a newline or EOF that never comes
InitStalled ==
    /\ cPc = "running"
    /\ hPc = [h \in Handlers |-> CASE h = "udp"  -> "idle"
                                    [] h = "tcp1" -> "idle"
                                    [] OTHER      -> "unconnected"]
    /\ hData = [h \in Handlers |-> ""]
    /\ hTmp = [h \in Handlers |-> 0]
    /\ cLock = "" /\ cCount = 0 /\ cClosed = FALSE /\ cFile = <<>>
    /\ cRecv = [h \in Handlers |-> <<>>]
    /\ cStopLog = <<>>
    /\ DecodeIdle
    /\ MountsIdle
    /\ RunnerIdle
    /\ AppIdle
    /\ SuiteIdle
    /\ OptionsIdle
    /\ Nfs4Idle
    /\ WorkersIdle
    /\ RequestIdle

NextStalled == StopStep \/ \E h \in Handlers \ {"tcp1"} : Serve(h)

\* the threads that can run: the one calling stop_syslog_server and each
\* handler thread that holds a datagram or line
Running == StopStep \/ \E h \in Handlers \ {"tcp1"} : Handle(h)

\* while some thread can run, one of them does; nothing is assumed of the
\* senders
SpecStalled == InitStalled /\ [][NextStalled]_vars /\ WF_vars(Running)

(***************************************************************************)
(* The option-string specification: the two option-string builders applied *)
(* to a mount configuration.                                               *)
(***************************************************************************)
\* the configurations: NFSv3 and NFSv4, the minor versions -1..3 (the field
\* is an unvalidated int; 0, 1, 2 are the NFSv4 minor versions), the
\* transports, and the flags that add or remove entries of the string
OptionConfigs ==
    {[MOUNT_OPTIONS EXCEPT !.majorvers = v, !.minorversion = m, !.transport = t,
                           !.soft = so, !.noac = na, !.nconnect = nc, !.pnfs = pn] :
        v \in {3, 4}, m \in -1..3, t \in {"tcp", "udp", "rdma"},
        so \in BOOLEAN, na \in BOOLEAN, nc \in BOOLEAN, pn \in BOOLEAN}

InitOptions ==
    /\ oPc = "given" /\ oIn \in OptionConfigs /\ oFn = "" /\ oOut = NoOptions
    /\ DecodeIdle
    /\ MountsIdle
    /\ RunnerIdle
    /\ AppIdle
    /\ SuiteIdle
    /\ CaptureIdle
    /\ Nfs4Idle
    /\ WorkersIdle
    /\ RequestIdle

\* exec_mounts.mount_nas line 160: opts_str = _build_mount_options(options)
BuildExecOptions ==
    /\ oPc = "given"
    /\ oOut' = _build_mount_options(oIn)
    /\ oFn' = "_build_mount_options"
    /\ oPc' = "built"
    /\ UNCHANGED <<oIn, notOptions>>

\* nfs3_test_suite.mount_nas lines 93, 109: NFS3MountOptions, to_mount_string;
\* the NFS3 suite is given NFSv3 configurations only
BuildNfs3Options ==
    /\ oPc = "given" /\ oIn.majorvers = 3
    /\ oOut' = [raised |-> FALSE,
                value  |-> to_mount_string(NFS3MountOptions(oIn.majorvers, oIn.transport))]
    /\ oFn' = "to_mount_string"
    /\ oPc' = "built"
    /\ UNCHANGED <<oIn, notOptions>>

NextOptions == BuildExecOptions \/ BuildNfs3Options

SpecOptions == InitOptions /\ [][NextOptions]_vars

(***************************************************************************)
(* The concurrent-test specification: one call of a test function that     *)
(* runs worker threads (test_nfs.py, test_smb.py), the workers beside it.  *)
(***************************************************************************)
MaxWorkers == 2

ConcurrentTests ==
    {"test_nfs_concurrent_writers", "test_nfs4_parallel_io_performance",
     "test_smb_concurrent_reads", "test_smb_concurrent_writes"}

\* the NFS tests run their workers in `with ThreadPoolExecutor(...)`, the SMB
\* tests start and join threading.Thread objects themselves
UsesExecutor(t) == t \in {"test_nfs_concurrent_writers", "test_nfs4_parallel_io_performance"}

\* the value of passed the test records after its workers were joined
Verdict(t, workers) ==
    IF t = "test_nfs_concurrent_writers" THEN TRUE
    ELSE \A i \in DOMAIN workers : workers[i] = "ok"

InitWorkers ==
    /\ wPc = "setup" /\ wTest \in ConcurrentTests
    /\ wWorkers = [i \in 1..MaxWorkers |-> "new"]
    /\ wResults = <<>>
    /\ DecodeIdle
    /\ MountsIdle
    /\ RunnerIdle
    /\ AppIdle
    /\ SuiteIdle
    /\ CaptureIdle
    /\ OptionsIdle
    /\ Nfs4Idle
    /\ RequestIdle

\* before the workers: create_test_directory (test_nfs.py 595-598,
\* 1253-1256), _register_session and the file the readers read (test_smb.py
\* 827-832, 867-869); a failure is recorded and the test returns
WSetup ==
    /\ wPc = "setup"
    /\ \E ok \in BOOLEAN :
          IF ok
          THEN wPc' = "launch" /\ wResults' = wResults
          ELSE /\ wPc' = "returned"
               /\ wResults' = Append(wResults, [test |-> wTest, passed |-> FALSE])
    /\ UNCHANGED <<wTest, wWorkers, notWorkers>>

\* the next worker thread is started: executor.map submits the next task
\* (test_nfs.py 624, 1291), [t.start() for t in threads] starts the next
\* thread (test_smb.py 844, 881).  Thread.start raises RuntimeError when the
\* host cannot create a thread: the with statement of the executor then
\* waits for the workers already started before the exception reaches the
\* except clause, the list comprehension of the SMB tests does not.
WStart ==
    /\ wPc = "launch"
    /\ LET i == CHOOSE k \in DOMAIN wWorkers :
                    wWorkers[k] = "new" /\ \A j \in 1..(k - 1) : wWorkers[j] # "new"
       IN  \E started \in BOOLEAN :
              IF started
              THEN /\ wWorkers' = [wWorkers EXCEPT ![i] = "running"]
                   /\ wPc' = IF i = Len(wWorkers) THEN "join" ELSE "launch"
              ELSE /\ wWorkers' = wWorkers
                   /\ wPc' = IF UsesExecutor(wTest) THEN "unwind" ELSE "except"
    /\ UNCHANGED <<wTest, wResults, notWorkers>>

\* a worker thread runs to its end: writer_task / io_task return True or
\* False, reader / writer return with or without an entry in errors
WorkerRun(i) ==
    /\ wWorkers[i] = "running"
    /\ \E ok \in BOOLEAN : wWorkers' = [wWorkers EXCEPT ![i] = IF ok THEN "ok" ELSE "failed"]
    /\ UNCHANGED <<wPc, wTest, wResults, notWorkers>>

\* the workers are awaited: list(executor.map(...)) and the end of the with
\* statement, [t.join() for t in threads]; test_smb_concurrent_reads then
\* removes the file, which can raise
WJoin ==
    /\ wPc \in {"join", "unwind"}
    /\ \A i \in DOMAIN wWorkers : wWorkers[i] # "running"
    /\ \E removed \in BOOLEAN :
          wPc' = IF wPc = "unwind" THEN "except"
                 ELSE IF wTest = "test_smb_concurrent_reads" /\ ~removed THEN "except"
                 ELSE "record"
    /\ UNCHANGED <<wTest, wWorkers, wResults, notWorkers>>

\* the result of the test: log_result / all_results.append after the workers
WRecord ==
    /\ wPc = "record"
    /\ wResults' = Append(wResults, [test |-> wTest, passed |-> Verdict(wTest, wWorkers)])
    /\ wPc' = "returned"
    /\ UNCHANGED <<wTest, wWorkers, notWorkers>>

\* the except clause of the test: the failure is recorded, the test returns
WExcept ==
    /\ wPc = "except"
    /\ wResults' = Append(wResults, [test |-> wTest, passed |-> FALSE])
    /\ wPc' = "returned"
    /\ UNCHANGED <<wTest, wWorkers, notWorkers>>

NextWorkers ==
    \/ WSetup
    \/ WStart
    \/ \E i \in 1..MaxWorkers : WorkerRun(i)
    \/ WJoin
    \/ WRecord
    \/ WExcept

SpecWorkers == InitWorkers /\ [][NextWorkers]_vars

(***************************************************************************)
(* The NFS4 runner specification: one call of                              *)
(* NFS4TestRunner.run_basic_tests(minor_version, mount_type).              *)
(***************************************************************************)
\* the test methods run_basic_tests calls, in order (lines 1025-1045)
Nfs4Plan ==
    <<"test_stateful_operations", "test_compound_operations", "test_delegation_basic",
      "test_nfs4_acls", "test_named_attributes", "test_minorversion_features",
      "test_readwrite_mount_enforcement", "test_basic_file_operations",
      "test_idempotent_operations", "test_close_to_open_consistency",
      "test_nlm_basic_locking", "test_parallel_io_performance",
      "test_small_file_performance", "test_concurrent_writers",
      "test_large_file_sequential_io">>

\* lines 1011-1012 build NFS4Test with the caller's mount_type, lines
\* 1019-1020 build it again with mount_type='rw'; the second object is the
\* one set up
Nfs4TestMountType(mount_type) == "rw"

\* what NFS4Test.mount meets: mkdtemp raises, the mount command fails, the
\* mount command succeeds and the mount table does not show the mount point,
\* the mount command succeeds and the mount table shows it
Nfs4MountOutcomes == {"mkdtemp", "cmd", "table", "ok"}

InitNfs4 ==
    /\ nPc = "setup"
    /\ nIn \in [minor_version : {0, 1, 2}, mount_type : {"rw", "ro"}]
    /\ nTest = 0 /\ nLive = FALSE /\ nOps = <<>> /\ nExc = ""
    /\ DecodeIdle
    /\ MountsIdle
    /\ RunnerIdle
    /\ AppIdle
    /\ SuiteIdle
    /\ CaptureIdle
    /\ OptionsIdle
    /\ WorkersIdle
    /\ RequestIdle

\* line 1022, test.setup(), called before the try statement: mount (lines
\* 92-132), then the test directory (lines 158-160)
Nfs4Setup ==
    /\ nPc = "setup"
    /\ \E m \in Nfs4MountOutcomes, makedirs \in BOOLEAN :
          /\ nOps' = IF m = "mkdtemp" THEN nOps
                     ELSE Append(nOps, [op |-> "mount",
                                        mount_type |-> Nfs4TestMountType(nIn.mount_type)])
          /\ nLive' = (m \in {"table", "ok"})
          /\ IF m # "ok"
             THEN nPc' = "raised" /\ nExc' = "Exception"
             ELSE IF ~makedirs
             THEN nPc' = "raised" /\ nExc' = "OSError"
             ELSE nPc' = "tests" /\ nExc' = nExc
    /\ UNCHANGED <<nIn, nTest, notNfs4>>

\* lines 1023-1045: the next test method.  The methods record their failures;
\* test_small_file_performance creates its subdirectory outside its try
\* block (line 762) and can raise.
Nfs4Test ==
    /\ nPc = "tests" /\ nTest < Len(Nfs4Plan)
    /\ \E raises \in BOOLEAN :
          /\ raises => Nfs4Plan[nTest + 1] = "test_small_file_performance"
          /\ IF raises
             THEN nPc' = "finally" /\ nExc' = "OSError" /\ nTest' = nTest
             ELSE /\ nTest' = nTest + 1 /\ nExc' = nExc
                  /\ nPc' = IF nTest + 1 = Len(Nfs4Plan) THEN "finally" ELSE "tests"
    /\ UNCHANGED <<nIn, nLive, nOps, notNfs4>>

\* lines 1047-1048 and 163-171, 134-151: finally: test.teardown(), which
\* ends in unmount(); the exception of a test method then leaves
\* run_basic_tests
Nfs4Teardown ==
    /\ nPc = "finally"
    /\ nOps' = Append(nOps, [op |-> "umount", mount_type |-> ""])
    /\ nLive' = FALSE
    /\ nPc' = IF nExc # "" THEN "raised" ELSE "summary"
    /\ UNCHANGED <<nIn, nTest, nExc, notNfs4>>

\* lines 1050-1051: all_results.extend(test.results), print_summary()
Nfs4Summary ==
    /\ nPc = "summary"
    /\ nPc' = "returned"
    /\ UNCHANGED <<nIn, nTest, nLive, nOps, nExc, notNfs4>>

NextNfs4 ==
    \/ Nfs4Setup
    \/ Nfs4Test
    \/ Nfs4Teardown
    \/ Nfs4Summary

SpecNfs4 == InitNfs4 /\ [][NextNfs4]_vars

(***************************************************************************)
(* The request specification: one call of API_Connection_Manager._request. *)
(***************************************************************************)
MaxRetries == 3

\* the manager when _request is called: never connected, connect() failed
\* (the session exists, _connected is False), connected, or disconnected by
\* __exit__ (disconnect sets _session = None and _connected = False)
ManagerStates == {"never", "failed", "connected", "exited"}

\* the property is_connected: self._connected and self._session is not None
is_connected(state) == state = "connected"

InRange_OneMore(attempt, retries) == attempt <= retries + 1

\* for attempt in range(1, self.retries + 1)
InRange(attempt, retries) == attempt <= retries

\* what answers one self._session.request: a 2xx response, a response whose
\* raise_for_status raises HTTPError, ConnectionError, Timeout, or another
\* exception
RequestOutcomes == {"ok", "http_error", "conn_error", "timeout", "unexpected"}

InitRequest ==
    /\ qPc = "enter"
    /\ qIn \in [retries : 0..MaxRetries, connected : ManagerStates,
                method : {"GET", "POST", "DELETE"}]
    /\ qAttempt = 0 /\ qLog = <<>> /\ qOut = ""
    /\ DecodeIdle
    /\ MountsIdle
    /\ RunnerIdle
    /\ AppIdle
    /\ SuiteIdle
    /\ CaptureIdle
    /\ OptionsIdle
    /\ Nfs4Idle
    /\ WorkersIdle

\* lines 119-123: the connection check, then the loop begins
ReqEnter ==
    /\ qPc = "enter"
    /\ IF is_connected(qIn.connected)
       THEN qPc' = "loop" /\ qAttempt' = 1 /\ qOut' = qOut
       ELSE qPc' = "done" /\ qAttempt' = qAttempt /\ qOut' = "RuntimeError"
    /\ UNCHANGED <<qIn, qLog, notRequest>>

\* lines 125-151: one pass of the loop, a request sent and answered
ReqAttempt ==
    /\ qPc = "loop" /\ InRange(qAttempt, qIn.retries)
    /\ \E answer \in RequestOutcomes :
          /\ qLog' = Append(qLog, answer)
          /\ CASE answer = "ok"         -> qPc' = "done" /\ qOut' = "response"
                                           /\ qAttempt' = qAttempt
               [] answer = "http_error" -> qPc' = "done" /\ qOut' = "error_response"
                                           /\ qAttempt' = qAttempt
               [] answer = "unexpected" -> qPc' = "done" /\ qOut' = "raise"
                                           /\ qAttempt' = qAttempt
               [] OTHER                 -> qPc' = "loop" /\ qOut' = qOut
                                           /\ qAttempt' = qAttempt + 1
    /\ UNCHANGED <<qIn, notRequest>>

\* lines 153-154: the loop is over, raise last_error; last_error is None
\* when the loop made no pass, and `raise None` is a TypeError
ReqExhausted ==
    /\ qPc = "loop" /\ ~InRange(qAttempt, qIn.retries)
    /\ qPc' = "done"
    /\ qOut' = IF qLog = <<>> THEN "TypeError" ELSE "raise_last_error"
    /\ UNCHANGED <<qIn, qAttempt, qLog, notRequest>>

NextRequest == ReqEnter \/ ReqAttempt \/ ReqExhausted

SpecRequest == InitRequest /\ [][NextRequest]_vars

(***************************************************************************)
(* Properties.                                                             *)
(***************************************************************************)
\* the records all_results gained for the i-th mount of the suite
SuiteGained(i) ==
    SubSeq(sAllResults, sHist[i].base + 1,
           IF i < Len(sHist) THEN sHist[i + 1].base ELSE Len(sAllResults))

\* C1: isolation invariant of nfs_test_suite.  For a mounted target, after
\* N test functions have been sequenced, whatever they did (passed, failed,
\* raised), all_results has gained exactly N records, the k-th being the
\* record of the k-th function sequenced.
C1_OneRecordPerSequencedTest ==
    \A i \in DOMAIN sHist :
        /\ Len(SuiteGained(i)) = Len(sHist[i].invoked)
        /\ \A k \in 1..Len(sHist[i].invoked) :
              SuiteGained(i)[k].test = NfsTestName(sHist[i].invoked[k], sHist[i].options)

\* C2: nothing escapes the sequencing layer of the NFS3 suite.  When a test
\* body of a target raised, no exception leaves the runner because of it,
\* and once the runner has returned every test planned for that target was
\* called, the target was unmounted and every later target was begun.
C2_NothingEscapesRunTests ==
    \A i \in DOMAIN rHist :
        rHist[i].raisedIn # "" =>
            /\ ~(rPc = "raised" /\ i = Len(rHist))
            /\ rPc = "returned" =>
                  /\ rHist[i].invoked =
                        run_tests_plan(rMounts[i].mount_type, rMounts[i].host_access)
                  /\ rHist[i].unmounted
                  /\ Len(rHist) = Len(rMounts)

\* C3: cleanup on failure in app.main.  When main has ended (completed or
\* left by an exception), every appliance whose 'Set Audit Settings' step
\* succeeded and whose test run (event generation or the runner) threw has had
\* 'Delete Audit Settings' invoked exactly once.
C3_ClearInvokedAfterThrow ==
    aPc \in {"done", "crashed"} =>
        \A i \in DOMAIN aHist :
            (aHist[i].set = "ok" /\ aHist[i].threw) => aHist[i].clears = 1

\* C4: mount lifecycle in nfs3_test_suite_runner.  At most one mount point is
\* mounted at any time, and whenever the loop is about to take the next
\* target, has ended, or has been left by an exception, unmount_nas has been
\* called for every target for which mount_nas created a mount point.
C4_MountLifecycle ==
    /\ Cardinality(rOs.live) <= 1
    /\ rPc \in {"loop", "returned", "raised"} =>
          \A i \in DOMAIN rHist : rHist[i].created => rHist[i].unmounted

\* what a caller reads as success in the value unmount_nas / mount_nas returned
ReturnedSuccess(ret) == ret.kind \in {"bool", "tuple"} /\ ret.first

\* C5: unmount idempotence of exec_mounts.unmount_nas.  A call (as root, not
\* a dry run) on a mount point that is not mounted, or whose directory does
\* not exist, returns success.
C5_UnmountIdempotent ==
    ( /\ mLast.op = "unmount" /\ mRoot /\ ~mLast.dry_run
      /\ \/ mLast.mount_point \notin mLast.before.live
         \/ mLast.mount_point \notin mLast.before.dirs )
    => ReturnedSuccess(mLast.ret)

\* C6: a failed mount reaches nfs3_test_suite_runner as a returned failure
\* value.  When mount_nas did not succeed for a target, the runner is not left
\* by an exception at that target: it goes on to the next one.
C6_FailedMountIsSkipped ==
    \A i \in DOMAIN rHist :
        ~ReturnedSuccess(rHist[i].mount) => ~(rPc = "raised" /\ i = Len(rHist))

\* C7: exec_mounts.mount_nas reports success (not a dry run) only when the
\* mount command exited 0 and the mount point is in the live mount table.
C7_MountSuccessMeansLive ==
    (mLast.op = "mount" /\ ~mLast.dry_run /\ ReturnedSuccess(mLast.ret))
    => (mLast.cmd = "ok" /\ mLast.ret.second \in mOs.live)

\* C8: privilege precondition of app.main.  Without root privilege the run
\* has no side effect: no syslog listener bound, no audit or SSH request
\* sent, no mount attempted.
C8_NoSideEffectWithoutRoot ==
    ~aRoot => (aEffects = <<>> /\ rHist = <<>>)

C10_DecodeCorrect ==
    dPc = "decoded" =>
        LET n        == HeaderDigits(dRaw)
            pri      == ParseInt(SubSeq(dRaw, 2, 1 + n))
            standard == FACILITIES @@ (12 :> "ntp") @@ (13 :> "security") @@
                        (14 :> "console") @@ (15 :> "solaris-cron")
        IN  IF n > 0
            THEN (pri \div 8) \in 0..23 =>
                    /\ dOut.facility = standard[pri \div 8]
                    /\ dOut.severity = SEVERITIES[pri % 8]
                    /\ Strip(dOut.body) = Strip(SubSeq(dRaw, 3 + n, Len(dRaw)))
            ELSE HeaderDigits(Strip(dRaw)) = 0 =>
                    /\ dOut.facility = "unknown"
                    /\ dOut.severity = "unknown"
                    /\ Strip(dOut.body) = Strip(dRaw)

\* the complete lines of the capture file written by handler thread h
LinesWrittenBy(h) == {i \in DOMAIN cFile : cFile[i].part = "nl" /\ cFile[i].by = h}

\* C11: the capture never silently loses a line.  Whenever a handler thread
\* is not in the middle of handling a datagram or line, the capture file
\* holds exactly one record for each datagram or line that thread received,
\* also when stop_syslog_server runs beside the handlers.
C11_NoLineLost ==
    \A h \in Handlers :
        hPc[h] \in {"unconnected", "idle", "ended"} =>
            Cardinality(LinesWrittenBy(h)) = Len(cRecv[h])

\* C18: single-writer capture file.  With UDP and TCP handler threads
\* interleaved in every way, the file is a sequence of complete lines, the
\* text of a record followed at once by its own newline, and whenever no
\* handler holds the lock, count is the number of lines written.
C18_SingleWriter ==
    /\ \A i \in DOMAIN cFile :
          IF i % 2 = 1
          THEN /\ cFile[i].part = "text"
               /\ i = Len(cFile) => (cLock = cFile[i].by /\ hPc[cFile[i].by] = "writing")
          ELSE /\ cFile[i].part = "nl"
               /\ cFile[i].by = cFile[i - 1].by
               /\ cFile[i].n = cFile[i - 1].n
    /\ cLock = "" =>
          cCount = Cardinality({i \in DOMAIN cFile : cFile[i].part = "nl"})

\* a TCP handler is writing its line under the lock while the UDP handler,
\* with a datagram in hand, waits for the lock, and another connection's line
\* is already in the file
C18_ContendedWrite ==
    /\ cLock = "tcp1" /\ hPc["tcp1"] = "writing"
    /\ hPc["udp"] = "handle"
    /\ LinesWrittenBy("tcp2") # {}

\* C19: syslog shutdown ordering.  stop_syslog_server reports the summary
\* only after the capture file was flushed and closed.
C19_CloseBeforeSummary ==
    \A i \in DOMAIN cStopLog :
        cStopLog[i] = "capture.summary" =>
            \E j \in 1..(i - 1) : cStopLog[j] = "capture.close"

\* C12: dry-run mount.  exec_mounts.mount_nas called as root with
\* dry_run=True for the NFSv3 / tcp / rw target with every other option at its
\* default builds exactly the option string of the specification, returns
\* success, and neither runs the mount command nor changes the mount table.
C12_DryRunMount ==
    ( /\ mLast.op = "mount" /\ mRoot /\ mLast.dry_run
      /\ mLast.options = MOUNT_OPTIONS )
    => /\ mLast.opts = "rw,vers=3,proto=tcp,rsize=1048576,wsize=1048576,timeo=600,retrans=2,hard,intr,acregmin=3,acregmax=60,acdirmin=30,acdirmax=60,sec=sys"
       /\ ReturnedSuccess(mLast.ret)
       /\ ~mLast.ran
       /\ mOs.live = mLast.before.live

\* a dry-run mount of the default NFSv3 target was made as root on a host
\* where the mount point is not mounted
C12_DryRunMade ==
    /\ mLast.op = "mount" /\ mRoot /\ mLast.dry_run
    /\ mLast.options = MOUNT_OPTIONS
    /\ mLast.ret.second \notin mOs.live

\* str.split(','): the entries of an option string
RECURSIVE SplitComma(_)
SplitComma(s) ==
    IF \A i \in 1..Len(s) : CharAt(s, i) # ","
    THEN <<s>>
    ELSE LET k == CHOOSE i \in 1..Len(s) :
                      CharAt(s, i) = "," /\ \A j \in 1..(i - 1) : CharAt(s, j) # ","
         IN  <<SubSeq(s, 1, k - 1)>> \o SplitComma(SubSeq(s, k + 1, Len(s)))

\* the entries of an option string that begin with key
EntriesOf(s, key) ==
    LET e == SplitComma(s) IN {i \in DOMAIN e : StartsWith(e[i], key)}

\* C13: option-string round trip.  For every configuration for which a
\* builder returns a string, the string has exactly one vers= entry, equal to
\* the configured version (vers=3, or vers=4.<minor>), and exactly one
\* proto= entry, equal to the configured transport.
C13_OptionRoundTrip ==
    (oPc = "built" /\ ~oOut.raised) =>
        LET e == SplitComma(oOut.value)
        IN  /\ Cardinality(EntriesOf(oOut.value, "vers=")) = 1
            /\ \A i \in EntriesOf(oOut.value, "vers=") :
                  e[i] = IF oIn.majorvers = 3 THEN "vers=3"
                         ELSE "vers=4." \o ToString(oIn.minorversion)
            /\ Cardinality(EntriesOf(oOut.value, "proto=")) = 1
            /\ \A i \in EntriesOf(oOut.value, "proto=") :
                  e[i] = "proto=" \o oIn.transport

\* _build_mount_options returned the string of an NFSv4.2 configuration over
\* udp with nconnect set
C13_Nfs4StringBuilt ==
    /\ oPc = "built" /\ ~oOut.raised /\ oFn = "_build_mount_options"
    /\ oIn.majorvers = 4 /\ oIn.minorversion = 2 /\ oIn.transport = "udp"
    /\ oIn.nconnect
    /\ Len(SplitComma(oOut.value)) > 8

\* C14: read-only enforcement test of the NFS3 suite.  For the target whose
\* tests are running, each call of test_readonly_mount_enforcement has left
\* exactly one record, passed=True when the write was refused with EROFS or
\* EACCES and passed=False when the write succeeded or failed in any other
\* way; the refusal never leaves the runner as an exception.
C14_ReadonlyEnforcementRecorded ==
    (rPc \in {"tests", "unmount"} /\ rHist # <<>>) =>
        LET h     == rHist[Len(rHist)]
            calls == {k \in DOMAIN h.invoked : h.invoked[k] = "test_readonly_mount_enforcement"}
            recs  == {j \in DOMAIN rAllResults :
                         rAllResults[j].test = "readonly_mount_enforcement"}
        IN  /\ Cardinality(recs) = Cardinality(calls)
            /\ \A k \in calls : \A j \in recs :
                  rAllResults[j].passed = (h.outcomes[k] \in {"erofs", "eacces"})
            /\ h.raisedIn # "test_readonly_mount_enforcement"

\* the enforcement test ran on a target and its write was refused with EACCES
C14_WriteRefused ==
    /\ rPc \in {"tests", "unmount"} /\ rHist # <<>>
    /\ \E k \in DOMAIN rHist[Len(rHist)].invoked :
          /\ rHist[Len(rHist)].invoked[k] = "test_readonly_mount_enforcement"
          /\ rHist[Len(rHist)].outcomes[k] = "eacces"
    /\ \E j \in DOMAIN rAllResults :
          rAllResults[j].test = "readonly_mount_enforcement" /\ rAllResults[j].passed

\* C15: a failure of audit_configure('Set Audit Settings') is not fatal: main
\* does not end on it (so the appliance's protocol tests and its clear step
\* can still follow).
C15_AuditErrorNonFatal ==
    \A i \in DOMAIN aHist :
        aHist[i].set = "raised" => ~(aPc = "crashed" /\ aExc = "ConnectionError")

\* C16: the final summary of the runner is produced for every list of
\* results, the empty list of a run in which no target mounted included:
\* the runner is never left by the division by the total.
C16_SummaryForEveryList ==
    (rPc = "raised" /\ rExc = "ZeroDivisionError") => Len(rAllThe) > 0

\* C17: when main has finished and a test of the run has failed, the exit
\* status of the process is not zero.
C17_ExitStatusOnFailure ==
    (aPc = "done" /\ \E j \in DOMAIN rAllThe : ~rAllThe[j].passed) => ExitStatus # 0

\* C20: every audit-triggering action of main happens while a capture service
\* is started, and the capture file is closed only when a sleep has run since
\* the last audit-triggering action.
C20_CaptureLifecycle ==
    /\ (\E k \in DOMAIN aEffects :
           aEffects[k] \in {"audit_set", "ssh_connect", "audit_delete"}) =>
          aSyslog.started > 0
    /\ aSyslog.stopped > 0 => aSyslog.closedInGrace

\* C21: _build_mount_options never produces an invalid combination: for
\* majorvers 4 a minorversion outside {0, 1, 2} raises instead of giving a
\* string, and a string holds pnfs or nconnect=N only for NFSv4 with minor
\* version >= 1.
C21_InvalidCombinationRejected ==
    (oPc = "built" /\ oFn = "_build_mount_options") =>
        /\ (oIn.majorvers = 4 /\ oIn.minorversion \notin {0, 1, 2}) => oOut.raised
        /\ (~oOut.raised /\ (EntriesOf(oOut.value, "pnfs") # {}
                             \/ EntriesOf(oOut.value, "nconnect=") # {})) =>
              (oIn.majorvers = 4 /\ oIn.minorversion >= 1)

\* C22: audit configuration is idempotent at the controller boundary: a
\* 'Set Audit Settings' request answered 409 Conflict and a 'Delete Audit
\* Settings' request answered not found are both treated as success (logged
\* as executed, True returned), like the request that changed the appliance.
C22_AuditIdempotent ==
    \A i \in DOMAIN aHist : \A k \in DOMAIN aHist[i].answers :
        LET a == aHist[i].answers[k]
        IN  ((a.action = "Set Audit Settings" /\ a.api = "conflict")
             \/ (a.action = "Delete Audit Settings" /\ a.api = "not_found"))
                => a.level = "info"

\* C23: test discovery order.  For each of the prefixes test_nfs_,
\* test_nfs3_ and test_nfs4_, get_test_functions returns exactly the
\* functions of the module whose name starts with the prefix, each once, in
\* ascending order of first line; the three results are pairwise disjoint;
\* and the tests sequenced for a mounted target begin with the test_nfs_
\* list in that order.
C23_DiscoveryOrder ==
    sPlan # <<>> =>
        LET LineOf(n) == (CHOOSE f \in ModuleFunctions : f.name = n).line
            Names(r)  == {r[k] : k \in DOMAIN r}
            Exact(p)  ==
                LET r == get_test_functions(p)
                IN  /\ Names(r) = {f.name : f \in {g \in ModuleFunctions : StartsWith(g.name, p)}}
                    /\ \A j, k \in DOMAIN r : j < k => LineOf(r[j]) < LineOf(r[k])
        IN  /\ Exact("test_nfs_") /\ Exact("test_nfs3_") /\ Exact("test_nfs4_")
            /\ Names(v0_functions) \cap Names(v3_functions) = {}
            /\ Names(v0_functions) \cap Names(v4_functions) = {}
            /\ Names(v3_functions) \cap Names(v4_functions) = {}
            /\ SubSeq(sPlan, 1, Len(v0_functions)) = v0_functions

\* a target was mounted and the whole discovered sequence, NFSv4 functions
\* included, has been run on it
C23_DiscoveredSequenceRun ==
    /\ sPlan = v0_functions \o v4_functions
    /\ sHist # <<>>
    /\ sHist[Len(sHist)].invoked = sPlan

\* C28: the concurrent-writers test of the NFS3 suite records passed=True if
\* and only if every worker reported success: on the target whose tests are
\* running, its record has passed exactly when the outcome was the one in
\* which success_count == num_writers.
C28_ConcurrentWritersVerdict ==
    (rPc \in {"tests", "unmount"} /\ rHist # <<>>) =>
        LET h == rHist[Len(rHist)]
        IN  \A k \in DOMAIN h.invoked :
                h.invoked[k] = "test_concurrent_writers" =>
                    \A j \in DOMAIN rAllResults :
                        rAllResults[j].test = "concurrent_writers" =>
                            rAllResults[j].passed = (h.outcomes[k] = "pass")

\* C27: in the NFS3 suite, while a target's tests run and when they are
\* over, the number of test_result entries of the target's text report
\* equals the number of records in the target's all_results.
C27_ReportMatchesResults ==
    rPc \in {"tests", "unmount"} => Len(rTextLog) = Len(rAllResults)

\* C26: in app.main every capture service that is started is stopped exactly
\* once: never are two services started and not stopped, stop is never
\* reached with no service started, and when main is done as many services
\* were stopped as were started.
C26_CaptureStartStopPaired ==
    /\ aSyslog.started - aSyslog.stopped <= 1
    /\ aExc # "UnboundLocalError"
    /\ aPc = "done" => aSyslog.started = aSyslog.stopped

\* C25: a stalled TCP sender does not block the capture service.  While
\* connection tcp1 never sends a newline or EOF, a datagram the UDP handler
\* has in hand is recorded, a line another connection's handler has in hand
\* is handled to its end (recorded, unless the file was closed meanwhile),
\* and stop_syslog_server returns.
C25_StalledSenderDoesNotBlock ==
    /\ (hPc["udp"] = "handle") ~> (hPc["udp"] # "handle" /\ LinesWrittenBy("udp") # {})
    /\ (hPc["tcp2"] = "handle") ~>
           (hPc["tcp2"] \in {"idle", "ended"} /\ (LinesWrittenBy("tcp2") # {} \/ cClosed))
    /\ <>(cPc = "stopped")

\* the stalled connection still waits in readline while a datagram and a line
\* of another connection are in the file and stop_syslog_server is over
C25_StoppedBesideStalledSender ==
    /\ hPc["tcp1"] = "idle" /\ cRecv["tcp1"] = <<>>
    /\ LinesWrittenBy("udp") # {} /\ LinesWrittenBy("tcp2") # {}
    /\ cPc = "stopped"

\* C24: a test with internal concurrency joins all of its workers before it
\* records its result and before it returns, and records exactly one result:
\* no record exists and the test has not returned while a worker runs, and a
\* test that has returned has left exactly one record.
C24_WorkersJoinedBeforeResult ==
    /\ Len(wResults) <= 1
    /\ (wResults # <<>> \/ wPc = "returned") =>
          \A i \in DOMAIN wWorkers : wWorkers[i] # "running"
    /\ wPc = "returned" => Len(wResults) = 1

\* C29: in NFS4TestRunner.run_basic_tests every mount command that was run
\* with success is followed by exactly one unmount on every exit path, and
\* the export is mounted with the mount_type the caller passed.
C29_MountFollowedByUnmount ==
    /\ \A k \in DOMAIN nOps : nOps[k].op = "mount" => nOps[k].mount_type = nIn.mount_type
    /\ nPc \in {"returned", "raised"} =>
          /\ ~nLive
          /\ Cardinality({k \in DOMAIN nOps : nOps[k].op = "umount"}) <= 1

\* C30: _request ends after at most `retries` attempts.  It never sends more
\* than retries requests; only a connection error or a timeout is followed
\* by another attempt; the last error is raised exactly when retries
\* attempts were made and each met a connection error or timeout; an HTTP
\* error response ends the call at the attempt that received it; and a
\* manager that is not connected raises RuntimeError with nothing sent.
C30_RequestTerminates ==
    /\ Len(qLog) <= qIn.retries
    /\ \A k \in DOMAIN qLog : k < Len(qLog) => qLog[k] \in {"conn_error", "timeout"}
    /\ qOut = "raise_last_error" <=>
          (/\ qPc = "done" /\ qLog # <<>> /\ Len(qLog) = qIn.retries
           /\ qLog[Len(qLog)] \in {"conn_error", "timeout"})
    /\ qOut = "error_response" <=>
          (qPc = "done" /\ qLog # <<>> /\ qLog[Len(qLog)] = "http_error")
    /\ (qPc = "done" /\ qIn.connected # "connected") =>
          (qOut = "RuntimeError" /\ qLog = <<>>)

\* every one of the three attempts allowed met a connection error or a
\* timeout, and the last error was raised
C30_RetriesExhausted ==
    /\ qIn.retries = 3 /\ Len(qLog) = 3 /\ qLog[1] = "conn_error" /\ qLog[3] = "timeout"
    /\ qPc = "done" /\ qOut = "raise_last_error"

====
